---- MODULE Spec2Model ----
(***************************************************************************)
(* A model of the AQM-Eval evaluation driver: the configuration validation *)
(* of aqm_eval.mm_eval.driver.config and the package orchestration         *)
(* (initialize / run / finalize) of aqm_eval.mm_eval.driver.package.core.   *)
(*                                                                         *)
(* Strings that the code only compares for equality are TLA+ strings.      *)
(* Strings that the code slices or tests with startswith (model keys, task *)
(* labels) are sequences of tokens, so that a prefix test is a test on the  *)
(* sequence.                                                               *)
(***************************************************************************)
EXTENDS Integers, Sequences, FiniteSets, TLC

VARIABLES
    cfg,        \* the validated configuration the package objects read
    fs,         \* the filesystem below run_dir and output_dir for cfg.pkg
    hist,       \* what has completed so far (initialize, save_paired)
    phase,      \* "idle", or "returned" when a call has just returned
    last,       \* the call that has just returned: arguments, pre-state, outcome
    raw,        \* a raw configuration handed to validation
    verdict,    \* the outcome of validating raw
    val,        \* the validation call: its input and what it produced
    mrg,        \* two mapping fragments and the results of merging them
    pipe        \* one run of the derived-field pipeline

vars == <<cfg, fs, hist, phase, last, raw, verdict, val, mrg, pipe>>

(***************************************************************************)
(* Bounds of the model.                                                    *)
(***************************************************************************)
MaxDates == 1          \* cycle dates of the evaluated range
MaxScorecards == 1     \* scorecards of an orchestrated configuration
FilesPerCycle == 2     \* source files found in one cycle directory
MaxModels == 2         \* models of a raw configuration handed to validation
MaxDim == 6            \* size of a horizontal dimension
MaxWorkers == 6        \* dask worker count
MaxTime == 2           \* length of the time dimension

(***************************************************************************)
(* Enumerations of config.py.                                              *)
(***************************************************************************)
TaskKey ==
    << "save_paired", "timeseries", "taylor", "spatial_bias", "spatial_overlay",
       "boxplot", "multi_boxplot", "scorecard", "csi", "stats" >>

ScorecardMethod == << "rmse", "ioa", "nmb", "nme" >>

PackageKey == { "chem", "ish", "aqs_pm", "aqs_voc" }

RunMode == { "strict", "resume" }

SeqToSet(s) == { s[i] : i \in 1..Len(s) }

\* The subsequence of s whose elements satisfy membership in keep, order kept.
RECURSIVE FilterSeq(_, _)
FilterSeq(s, keep) ==
    IF s = << >> THEN << >>
    ELSE IF Head(s) \in keep
         THEN << Head(s) >> \o FilterSeq(Tail(s), keep)
         ELSE FilterSeq(Tail(s), keep)

(***************************************************************************)
(* Configuration validation (config.py).                                   *)
(* A raw configuration is                                                  *)
(*   [models: Seq([key, title, color, is_host]), no_forecast: BOOLEAN,     *)
(*    scorecards: Seq([key, control, sensitivity])]                        *)
(* with the models and scorecards in the mapping's insertion order.        *)
(***************************************************************************)
NoTitle == << "None" >>

\* AQMModelConfig._validate_model_: a missing title defaults to the key.
ValidateModelBefore(m) ==
    IF m.title = NoTitle THEN [m EXCEPT !.title = m.key] ELSE m

ModelKeys(models) == { models[i].key : i \in 1..Len(models) }

\* The stem test comparing whole keys only.
KeyEquals(k, target) == k = target

\* k[0 : len(target)] == target
KeyStartsWith(k, target) ==
    /\ Len(target) <= Len(k)
    /\ SubSeq(k, 1, Len(target)) = target

\* The keys of the models flagged is_host.
HostKeys(models) == { models[i].key : i \in { j \in 1..Len(models) : models[j].is_host } }

\* AQMConfig.host_model: the key of the first model flagged is_host; the
\* property raises ValueError("No host model found.") when there is none.
NoHost == << "NoHost" >>
HostModel(models) ==
    LET hostIdx == { j \in 1..Len(models) : models[j].is_host }
    IN  IF hostIdx = {} THEN NoHost
        ELSE models[CHOOSE i \in hostIdx : \A j \in hostIdx : i <= j].key

\* AQMConfig.n_models_to_evaluate
NModelsToEvaluate(c) ==
    IF c.no_forecast THEN Len(c.models) - 1 ELSE Len(c.models)

\* _validate_models_after_ with the host's color compared under no_forecast too.
ValidateModelsAfterNoExempt(models, no_forecast) ==
    LET idx == 1..Len(models)
        stems == \E i \in idx : \E j \in idx :
                    /\ models[i].key # models[j].key
                    /\ KeyStartsWith(models[j].key, models[i].key)
        titles == { models[i].title : i \in idx }
        colors == { models[i].color : i \in idx }
    IN  IF stems THEN "stems"
        ELSE IF Cardinality(HostKeys(models)) # 1 THEN "host"
        ELSE IF Cardinality(titles) # Len(models) THEN "title"
        ELSE IF Cardinality(colors) # Len(models) THEN "color"
        ELSE "ok"

\* _validate_models_after_ without the test on the number of hosts.
ValidateModelsAfterAnyHosts(models, no_forecast) ==
    LET idx == 1..Len(models)
        stems == \E i \in idx : \E j \in idx :
                    /\ models[i].key # models[j].key
                    /\ KeyStartsWith(models[j].key, models[i].key)
        titles == { models[i].title : i \in idx }
        toCheck == IF no_forecast
                   THEN { i \in idx : ~models[i].is_host }
                   ELSE idx
        colors == { models[i].color : i \in toCheck }
    IN  IF stems THEN "stems"
        ELSE IF Cardinality(titles) # Len(models) THEN "title"
        ELSE IF Cardinality(colors) # Cardinality(toCheck) THEN "color"
        ELSE "ok"

\* AQMConfig._validate_models_after_: the first check that fails, or "ok".
ValidateModelsAfter(models, no_forecast) ==
    LET idx == 1..Len(models)
        stems == \E i \in idx : \E j \in idx :
                    /\ models[i].key # models[j].key
                    /\ KeyStartsWith(models[j].key, models[i].key)
        titles == { models[i].title : i \in idx }
        toCheck == IF no_forecast
                   THEN { i \in idx : ~models[i].is_host }
                   ELSE idx
        nToCheck == IF no_forecast THEN Len(models) - 1 ELSE Len(models)
        colors == { models[i].color : i \in toCheck }
    IN  IF stems THEN "stems"
        ELSE IF Cardinality(HostKeys(models)) # 1 THEN "host"
        ELSE IF Cardinality(titles) # Len(models) THEN "title"
        ELSE IF Cardinality(colors) # nToCheck THEN "color"
        ELSE "ok"

\* _validate_model_after_ without the host test under no_forecast.
ValidateModelAfterNoHostTest(c) ==
    LET keys == ModelKeys(c.models)
        badRef == \E i \in 1..Len(c.scorecards) :
                     \/ c.scorecards[i].control \notin keys
                     \/ c.scorecards[i].sensitivity \notin keys
    IN  IF badRef THEN "scorecard"
        ELSE ValidateModelsAfter(c.models, c.no_forecast)

\* AQMConfig._validate_model_after_: the scorecard references, then the models.
ValidateModelAfter(c) ==
    LET keys == ModelKeys(c.models)
        badRef == \E i \in 1..Len(c.scorecards) :
                     \/ c.scorecards[i].control \notin keys
                     \/ c.scorecards[i].sensitivity \notin keys
                     \/ /\ c.no_forecast
                        /\ \/ HostModel(c.models) = NoHost
                           \/ HostModel(c.models) \in
                                 { c.scorecards[i].control,
                                   c.scorecards[i].sensitivity }
    IN  IF badRef THEN "scorecard"
        ELSE ValidateModelsAfter(c.models, c.no_forecast)

\* AQMConfig validation as pydantic runs it: the before-validator, the fields
\* (each model's own before-validator), then the after-validator.
Validate(c) ==
    IF Len(c.models) = 0 THEN "nomodels"
    ELSE ValidateModelAfter(
            [c EXCEPT !.models = [i \in 1..Len(c.models) |->
                                     ValidateModelBefore(c.models[i])]])

(***************************************************************************)
(* The package catalogue (package/core.py, chem.py, ish.py, aqs_pm.py,      *)
(* aqs_voc.py).                                                            *)
(***************************************************************************)
DaskPackages == { "ish", "aqs_pm" }

\* tasks_default of each package class.  AQS_VOC_EvalPackage declares no
\* default and overrides tasks with the list given here; its object is built
\* by a caller that supplies the fields the class gives no default for.
TasksDefault(pkg) ==
    CASE pkg = "chem"    -> TaskKey
      [] pkg = "aqs_pm"  -> TaskKey
      [] pkg = "ish"     -> << "save_paired", "timeseries", "taylor", "spatial_bias",
                               "spatial_overlay", "boxplot", "stats" >>
      [] pkg = "aqs_voc" -> << "save_paired", "timeseries", "taylor", "spatial_bias",
                               "spatial_overlay", "boxplot", "multi_boxplot", "csi",
                               "stats" >>

\* AbstractEvalPackage.enable_scorecards
EnableScorecards(c) == Len(c.scorecards) > 0

\* AbstractEvalPackage.tasks: the tasks the package writes control files for.
Tasks(c) ==
    IF EnableScorecards(c) THEN TasksDefault(c.pkg)
    ELSE FilterSeq(TasksDefault(c.pkg), SeqToSet(TaskKey) \ { "scorecard" })

\* A control file control_<label>.yaml is named by its label, a token sequence:
\* <<task>> for a plain task, <<"scorecard", method, scorecard key>> otherwise.
ScorecardLabels(c) ==
    { << "scorecard", ScorecardMethod[m], c.scorecards[i].key >> :
        m \in 1..Len(ScorecardMethod), i \in 1..Len(c.scorecards) }

\* AbstractEvalPackage.task_control_filenames
TaskControlFilenames(c) ==
    UNION { IF t = "scorecard" THEN ScorecardLabels(c) ELSE { << t >> } :
            t \in SeqToSet(Tasks(c)) }

\* mm_models leaving the host out whether or not a forecast is expected.
MmModelsNeverHost(c) ==
    LET keep == { c.models[i].key : i \in { j \in 1..Len(c.models) :
                    ~c.models[j].is_host } }
    IN  FilterSeq([i \in 1..Len(c.models) |-> c.models[i].key], keep)

\* AbstractEvalPackage.mm_models: the keys of the evaluated models, in the
\* configuration's order, the host left out under no_forecast.
MmModels(c) ==
    LET keep == { c.models[i].key : i \in { j \in 1..Len(c.models) :
                    ~(c.no_forecast /\ c.models[j].is_host) } }
    IN  FilterSeq([i \in 1..Len(c.models) |-> c.models[i].key], keep)

\* DateRange.iter_by_step: the cycle dates of the configured range.
CycleDates(c) == 1..c.ndates

\* AbstractEvalPackage.iter_forecast_file_specs: one (model, cycle date) pair
\* per evaluated model and date, models outermost.
RECURSIVE ForecastFileSpecs(_, _)
ForecastFileSpecs(models, ndates) ==
    IF models = << >> THEN << >>
    ELSE [d \in 1..ndates |-> << Head(models), d >>]
         \o ForecastFileSpecs(Tail(models), ndates)

(***************************************************************************)
(* The filesystem of one package: run_dir/<package> with its data           *)
(* subdirectory and control files, and output_dir/<package>.               *)
(***************************************************************************)
ModelKeyUniverse == { << "e" >>, << "b" >> }
ScorecardKeySeq == << "sc1", "sc2", "sc3" >>

AllPairs == ModelKeyUniverse \X (1..MaxDates)

EmptyFs ==
    [ roots   |-> FALSE,     \* run_dir and output_dir
      runDir  |-> FALSE,     \* run_dir/<package>
      data    |-> FALSE,     \* run_dir/<package>/data
      out     |-> FALSE,     \* output_dir/<package>
      parm    |-> FALSE,     \* run_dir/<package>/melodies_monet_parm.yaml
      control |-> {},        \* labels of the control_<label>.yaml files
      derived |-> [p \in AllPairs |-> "absent"],  \* data/<model>_<cycle>.nc:
                             \* "absent", "complete" or "partial"
      links   |-> {},        \* data/<model>_<cycle>_<file>: <<model, cycle, file>>
      paired  |-> FALSE ]    \* the paired result in output_dir/<package>

\* What one call wrote (created or overwrote).
NoWrites == [parm |-> FALSE, control |-> {}, derived |-> {}, links |-> {}]

\* Path.mkdir(exist_ok=..., parents=True) on a path that exists or not.
Mkdir(exists, existOk) ==
    IF exists /\ ~existOk THEN "FileExistsError" ELSE "none"

\* shared.get_or_create_path: mkdir is reached only when the path is absent.
GetOrCreatePath(exists, existOk) ==
    IF ~exists THEN Mkdir(exists, existOk) ELSE "none"

\* LoggerWrapper.__call__: msg is a required positional parameter, so a call
\* that passes exc_info alone fails with TypeError before anything is
\* logged; with a message, exc_info is raised (exit_on_error is set).
LoggerCall(hasMsg, excInfo) ==
    IF ~hasMsg THEN "TypeError" ELSE excInfo

\* AbstractEvalPackage._create_control_configs_for_scorecards_ for the
\* scorecards from index i on: the labels written, with the error if any.
RECURSIVE CreateControlConfigsForScorecards(_, _, _)
CreateControlConfigsForScorecards(c, i, st) ==
    IF i > Len(c.scorecards) THEN st
    ELSE LET sc == c.scorecards[i]
             labels == SeqToSet(MmModels(c))
             data == << sc.sensitivity, sc.control >>
             found == Cardinality({ x \in 1..Len(data) : data[x] \in labels })
         IN  IF found # Len(data)
             THEN [st EXCEPT !.err = "ValueError"]
             ELSE CreateControlConfigsForScorecards(c, i + 1,
                    [st EXCEPT !.control = @ \cup
                        { << "scorecard", ScorecardMethod[m], sc.key >> :
                            m \in 1..Len(ScorecardMethod) }])

\* The task loop of AbstractEvalPackage._create_control_configs_.
RECURSIVE WriteTaskControls(_, _, _)
WriteTaskControls(c, tasks, st) ==
    IF tasks = << >> THEN st
    ELSE IF MmModels(c) = << >>
         THEN [st EXCEPT !.err = "ValueError"]   \* mm_models: no models found
    ELSE IF Head(tasks) = "scorecard"
         THEN LET r == CreateControlConfigsForScorecards(c, 1, st)
              IN  IF r.err # "none" THEN r
                  ELSE WriteTaskControls(c, Tail(tasks), r)
    ELSE WriteTaskControls(c, Tail(tasks),
            [st EXCEPT !.control = @ \cup { << Head(tasks) >> }])

\* AbstractEvalPackage._create_control_configs_: [fs, err, wrote].
CreateControlConfigs(c, f) ==
    LET r == WriteTaskControls(c, Tasks(c), [control |-> {}, err |-> "none"])
    IN  [fs |-> [f EXCEPT !.runDir = TRUE, !.parm = TRUE,
                          !.control = @ \cup r.control],
         err |-> r.err,
         wrote |-> [NoWrites EXCEPT !.parm = TRUE, !.control = r.control]]

\* AbstractEvalPackage.initialize: [fs, err, wrote].
BaseInitialize(c, f) ==
    LET existOk == (c.run_mode = "resume")
        f1 == [f EXCEPT !.roots = TRUE]
        e1 == GetOrCreatePath(f1.data, existOk)
        f2 == [f1 EXCEPT !.runDir = TRUE, !.data = TRUE]
        e2 == GetOrCreatePath(f2.out, existOk)
        f3 == [f2 EXCEPT !.out = TRUE]
    IN  IF e1 # "none" THEN [fs |-> f1, err |-> e1, wrote |-> NoWrites]
        ELSE IF e2 # "none" THEN [fs |-> f2, err |-> e2, wrote |-> NoWrites]
        ELSE CreateControlConfigs(c, f3)

\* The entries of a model's cycle directory: FilesPerCycle regular files
\* matching the file template, a directory whose name matches it, and a
\* regular file that does not match.
CycleDirEntries ==
    { [id |-> i, is_file |-> i # FilesPerCycle + 1, matches |-> i # FilesPerCycle + 2] :
        i \in 1..(FilesPerCycle + 2) }

\* The links helpers.create_symlinks makes for every evaluated model: one per
\* entry of each cycle directory that the template's glob yields and that
\* is a regular file.
WantedLinks(c) ==
    { << m, d, e.id >> : m \in SeqToSet(MmModels(c)), d \in CycleDates(c),
                         e \in { x \in CycleDirEntries : x.matches /\ x.is_file } }

\* helpers.create_symlinks linking every wanted file again.
CreateSymlinksNoSkip(c, f) ==
    [fs |-> [f EXCEPT !.links = @ \cup WantedLinks(c)],
     wrote |-> WantedLinks(c)]

\* helpers.create_symlinks: a link is created unless it exists already.
CreateSymlinks(c, f) ==
    [fs |-> [f EXCEPT !.links = @ \cup WantedLinks(c)],
     wrote |-> WantedLinks(c) \ f.links]

\* _run_dask_operations_ without the resume skip: an existing output file is
\* computed again.
RECURSIVE RunDaskOperationsNoSkip(_, _, _, _, _)
RunDaskOperationsNoSkip(c, i, st, failAt, failMode) ==
    LET specs == ForecastFileSpecs(MmModels(c), c.ndates)
    IN  IF i > Len(specs) THEN st
        ELSE LET p == specs[i]
             IN  IF failAt = i
                 THEN [st EXCEPT !.runs[p] = @ + 1, !.err = "PipelineError"]
                 ELSE RunDaskOperationsNoSkip(c, i + 1,
                        [st EXCEPT !.runs[p] = @ + 1, !.derived[p] = "complete"],
                        failAt, failMode)

\* AbstractDaskEvalPackage._run_dask_operations_ from the i-th forecast file
\* spec on.  st is [derived, runs, err]; runs counts the calls of
\* AbstractDaskOperation.run per pair.  The pipeline run of the failAt-th
\* spec fails (failMode "raise": before anything is written, "partial":
\* while to_netcdf writes the output file).
RECURSIVE RunDaskOperations(_, _, _, _, _)
RunDaskOperations(c, i, st, failAt, failMode) ==
    LET specs == ForecastFileSpecs(MmModels(c), c.ndates)
    IN  IF i > Len(specs) THEN st
        ELSE LET p == specs[i]
                 exists == st.derived[p] # "absent"
             IN  IF c.run_mode = "resume" /\ exists
                 THEN RunDaskOperations(c, i + 1, st, failAt, failMode)
                 ELSE IF exists
                 THEN [st EXCEPT !.err = LoggerCall(FALSE, "FileExistsError")]
                 ELSE IF failAt = i
                 THEN [st EXCEPT !.runs[p] = @ + 1,
                                 !.err = "PipelineError",
                                 !.derived[p] =
                                    IF failMode = "partial" THEN "partial" ELSE @]
                 ELSE RunDaskOperations(c, i + 1,
                        [st EXCEPT !.runs[p] = @ + 1, !.derived[p] = "complete"],
                        failAt, failMode)

NoRuns == [p \in AllPairs |-> 0]

\* initialize() of the package class of c.pkg: the base initialization, then
\* the links (chem, aqs_voc) or the derived files (ish, aqs_pm).
\* The result is [fs, err, wrote, runs].
PackageInitialize(c, f, failAt, failMode) ==
    LET b == BaseInitialize(c, f)
    IN  IF b.err # "none"
        THEN [fs |-> b.fs, err |-> b.err, wrote |-> b.wrote, runs |-> NoRuns]
        ELSE IF c.pkg \in DaskPackages
        THEN LET r == RunDaskOperations(c, 1,
                        [derived |-> b.fs.derived, runs |-> NoRuns, err |-> "none"],
                        failAt, failMode)
             IN  [fs |-> [b.fs EXCEPT !.derived = r.derived],
                  err |-> r.err,
                  wrote |-> [b.wrote EXCEPT !.derived =
                                { p \in AllPairs : r.derived[p] # b.fs.derived[p] }],
                  runs |-> r.runs]
        ELSE LET k == CreateSymlinks(c, b.fs)
             IN  [fs |-> k.fs, err |-> "none",
                  wrote |-> [b.wrote EXCEPT !.links = k.wrote], runs |-> NoRuns]

(***************************************************************************)
(* run() and finalize() (package/core.py).                                 *)
(***************************************************************************)
\* task_label.startswith("scorecard"): the first token of a label is the
\* text up to its first separator; "scorecardx" stands for a text that
\* starts with "scorecard" and is not a scorecard label.
StartsWithScorecard(label) == label[1] \in { "scorecard", "scorecardx" }

\* _run_task_: the task key a label selects; TaskKey(task_label) raises
\* ValueError for a label that is no task key.
TaskKeyOf(label) ==
    IF StartsWithScorecard(label) THEN "scorecard"
    ELSE IF Len(label) = 1 /\ label[1] \in SeqToSet(TaskKey) THEN label[1]
    ELSE "ValueError"

\* _run_task_ with the spatial tasks falling through to the default case.
RunTaskCallsDefault(key) ==
    CASE key = "save_paired" ->
            << "open_models", "open_obs", "pair_data", "save_analysis" >>
      [] key = "stats" -> << "read_analysis", "stats" >>
      [] key = "ValueError" -> << >>
      [] OTHER -> << "read_analysis", "plotting" >>

\* _run_task_: the collaborator calls of a task key, in order.
RunTaskCalls(key) ==
    CASE key = "save_paired" ->
            << "open_models", "open_obs", "pair_data", "save_analysis" >>
      [] key \in { "spatial_overlay", "spatial_bias" } ->
            << "read_analysis", "open_models", "plotting" >>
      [] key = "stats" -> << "read_analysis", "stats" >>
      [] key = "ValueError" -> << >>
      [] OTHER -> << "read_analysis", "plotting" >>

\* The collaborator (melodies_monet driver.analysis) working through calls:
\* read_control fails on a control file that does not exist, and any call
\* may raise (failAt names the call that does, 0 for none).
\* The result is [stop, raised]: the index of the call that raised, 0 if none.
Collaborator(f, label, calls, failAt) ==
    IF label \notin f.control
    THEN [stop |-> 1, raised |-> "FileNotFoundError"]
    ELSE IF failAt \in 1..Len(calls)
    THEN [stop |-> failAt, raised |-> "CollabError"]
    ELSE [stop |-> 0, raised |-> "none"]

\* finalize() called after the task instead of in a finally clause: a failing
\* task skips it.
FinallyOnSuccess(exc, finalizeArg) ==
    [err |-> exc, finalized |-> IF finalizeArg /\ exc = "none" THEN 1 ELSE 0]

\* The finally clause of run(): finalize() is called when the finalize
\* argument is set, and the exception in flight, if any, continues.
FinallyClause(exc, finalizeArg) ==
    [err |-> exc, finalized |-> IF finalizeArg THEN 1 ELSE 0]

\* The body of run() after its assertion.
RunBody(c, f, label, finalizeArg, failAt) ==
    LET key == TaskKeyOf(label)
        full == << "read_control" >> \o RunTaskCalls(key)
        col == Collaborator(f, label, full, failAt)
        exc == IF col.raised # "none" THEN col.raised
               ELSE IF key = "ValueError" THEN "ValueError"
               ELSE "none"
        fin == FinallyClause(exc, finalizeArg)
    IN  [err |-> fin.err,
         raised |-> col.raised,
         calls |-> IF col.stop > 0 THEN SubSeq(full, 1, col.stop) ELSE full,
         finalized |-> fin.finalized,
         fs |-> IF key = "save_paired" /\ exc = "none"
                THEN [f EXCEPT !.paired = TRUE] ELSE f]

\* run() with a check that the paired result exists before a non-pairing task.
PackageRunDependencyChecked(c, f, label, finalizeArg, failAt) ==
    IF ~f.runDir
    THEN [err |-> "AssertionError", raised |-> "none", calls |-> << >>,
          finalized |-> 0, fs |-> f]
    ELSE IF TaskKeyOf(label) \notin { "save_paired", "ValueError" } /\ ~f.paired
    THEN [err |-> "DependencyError", raised |-> "none", calls |-> << >>,
          finalized |-> 0, fs |-> f]
    ELSE RunBody(c, f, label, finalizeArg, failAt)

\* run() without its assertion on the run directory.
PackageRunNoAssert(c, f, label, finalizeArg, failAt) ==
    RunBody(c, f, label, finalizeArg, failAt)

\* AbstractEvalPackage.run(task_label, finalize)
PackageRun(c, f, label, finalizeArg, failAt) ==
    IF ~f.runDir                                    \* assert self.run_dir.exists()
    THEN [err |-> "AssertionError", raised |-> "none", calls |-> << >>,
          finalized |-> 0, fs |-> f]
    ELSE RunBody(c, f, label, finalizeArg, failAt)

(***************************************************************************)
(* The configurations the orchestration is exercised with: the host model  *)
(* "e" and optionally a second model "b", every one accepted by            *)
(* validation.                                                             *)
(***************************************************************************)
ModelE == [key |-> << "e" >>, title |-> NoTitle, color |-> "g", is_host |-> TRUE]
ModelB == [key |-> << "b" >>, title |-> NoTitle, color |-> "r", is_host |-> FALSE]

RECURSIVE SeqsUpTo(_, _)
SeqsUpTo(S, n) ==
    IF n = 0 THEN { << >> }
    ELSE LET shorter == SeqsUpTo(S, n - 1)
         IN  shorter \cup { Append(q, x) :
                              q \in { r \in shorter : Len(r) = n - 1 }, x \in S }

\* Scorecard maps with up to n entries, keyed sc1, sc2, ... in order.
ScorecardMaps(pairs, n) ==
    { [i \in 1..Len(q) |-> [key |-> ScorecardKeySeq[i],
                            control |-> q[i][1], sensitivity |-> q[i][2]]] :
        q \in SeqsUpTo(pairs, n) }

ScorecardPairs == { << << "e" >>, << "b" >> >>, << << "b" >>, << "b" >> >> }

ExcludeChoices == { {}, { "timeseries" } }

OrchConfigs ==
    { c \in [ pkg : PackageKey,
              run_mode : RunMode,
              no_forecast : BOOLEAN,
              models : { << ModelE >>, << ModelE, ModelB >> },
              scorecards : ScorecardMaps(ScorecardPairs, MaxScorecards),
              tasks_to_exclude : ExcludeChoices,
              ndates : { MaxDates } ] :
        Validate(c) = "ok" }

HistNone == [initCalled |-> FALSE, initOk |-> FALSE, paired |-> FALSE]

LastNone ==
    [ op |-> "none", label |-> << >>, finalizeArg |-> FALSE, err |-> "none",
      raised |-> "none", calls |-> << >>, finalized |-> 0,
      pre |-> EmptyFs, histPre |-> HistNone, wrote |-> NoWrites,
      runs |-> NoRuns ]

RawNone == [models |-> << >>, no_forecast |-> FALSE, scorecards |-> << >>,
            keyed |-> FALSE, typed |-> [ty |-> "list", of |-> "str"],
            free |-> [ty |-> "scalar", of |-> "str"], exec |-> << >>]

\* No validation call, no merge and no pipeline run yet.
ValNone == [op |-> "none"]
MrgNone == [op |-> "none"]
PipeNone == [pc |-> "none"]

Init ==
    /\ cfg \in OrchConfigs
    /\ fs = EmptyFs
    /\ hist = HistNone
    /\ phase = "idle"
    /\ last = LastNone
    /\ raw = RawNone
    /\ verdict = "none"
    /\ val = ValNone
    /\ mrg = MrgNone
    /\ pipe = PipeNone

\* One call of initialize() on a package object built from cfg.
Initialize ==
    /\ phase = "idle"
    /\ \E failAt \in 0..Len(ForecastFileSpecs(MmModels(cfg), cfg.ndates)),
          failMode \in { "raise", "partial" } :
          /\ (failAt = 0 \/ cfg.pkg \notin DaskPackages) => failMode = "raise"
          /\ cfg.pkg \notin DaskPackages => failAt = 0
          /\ LET r == PackageInitialize(cfg, fs, failAt, failMode)
             IN  /\ fs' = r.fs
                 /\ hist' = [hist EXCEPT !.initCalled = TRUE,
                                         !.initOk = @ \/ r.err = "none"]
                 /\ last' = [LastNone EXCEPT !.op = "init", !.err = r.err,
                                             !.pre = fs, !.histPre = hist,
                                             !.wrote = r.wrote, !.runs = r.runs]
    /\ phase' = "returned"
    /\ UNCHANGED << cfg, raw, verdict, val, mrg, pipe >>

RunLabels(c) ==
    { << t >> : t \in SeqToSet(TaskKey) }
    \cup ScorecardLabels(c)
    \cup { << "bogus" >>, << "scorecardx" >> }

\* One call of run(task_label, finalize) on a package object built from cfg.
Run ==
    /\ phase = "idle"
    /\ \E label \in RunLabels(cfg), finalizeArg \in BOOLEAN :
       \E failAt \in 0..(1 + Len(RunTaskCalls(TaskKeyOf(label)))) :
          LET r == PackageRun(cfg, fs, label, finalizeArg, failAt)
          IN  /\ fs' = r.fs
              /\ hist' = [hist EXCEPT !.paired =
                            @ \/ (TaskKeyOf(label) = "save_paired" /\ r.err = "none")]
              /\ last' = [LastNone EXCEPT !.op = "run", !.label = label,
                                          !.finalizeArg = finalizeArg,
                                          !.err = r.err, !.raised = r.raised,
                                          !.calls = r.calls,
                                          !.finalized = r.finalized,
                                          !.pre = fs, !.histPre = hist]
    /\ phase' = "returned"
    /\ UNCHANGED << cfg, raw, verdict, val, mrg, pipe >>

\* The call has returned to its caller (the command-line process ends); the
\* next call is made on a new package object.
Return ==
    /\ phase = "returned"
    /\ phase' = "idle"
    /\ last' = LastNone
    /\ UNCHANGED << cfg, fs, hist, raw, verdict, val, mrg, pipe >>

Next == Initialize \/ Run \/ Return

Spec == Init /\ [][Next]_vars

(***************************************************************************)
(* Validation of raw configurations (Config.from_default_yaml building an  *)
(* AQMConfig): the raw configuration is drawn from a bounded set and       *)
(* validated once.                                                         *)
(***************************************************************************)
RawKeys == { << "e" >>, << "b" >>, << "e", "x" >> }
RawTitles == { NoTitle, << "t" >>, << "e" >> }
RawColors == { "g", "r" }

RawModel == [key : RawKeys, title : RawTitles, color : RawColors, is_host : BOOLEAN]

\* The models mapping: up to MaxModels entries, no key twice.
RawModelSeqs ==
    { q \in SeqsUpTo(RawModel, MaxModels) :
        /\ Len(q) >= 1
        /\ \A i \in 1..Len(q) : \A j \in 1..Len(q) : i # j => q[i].key # q[j].key }

RawScorecards ==
    { << >>,
      << [key |-> "sc1", control |-> << "e" >>, sensitivity |-> << "b" >>] >>,
      << [key |-> "sc1", control |-> << "b" >>, sensitivity |-> << "b" >>] >> }

(***************************************************************************)
(* Execution settings.  A setting is absent, the word 'auto', or an        *)
(* integer.  The execution part of a configuration mapping holds the       *)
(* platform key handed to from_default_yaml, the platform-defaults table,  *)
(* each package's prep tasks_per_node and its task-level override of one   *)
(* task (spatial_overlay), and task_defaults' tasks_per_node.              *)
(***************************************************************************)
PackageKeySeq == << "chem", "ish", "aqs_pm", "aqs_voc" >>

PlatformKey == { "ursa", "gaeac6", "derecho", "orion", "hercules", "local" }

Absent == [k |-> "absent", n |-> 0]
Auto == [k |-> "auto", n |-> 0]
IntOf(n) == [k |-> "int", n |-> n]

\* No entry for the task under execution.tasks.
NoTask == [given |-> FALSE, batchargs |-> FALSE, nodes |-> Absent, tpn |-> Absent]

\* The entries an overrides mapping may hold for the task: an empty entry,
\* batchargs giving nodes only, batchargs giving nodes and tasks_per_node,
\* and batchargs giving tasks_per_node as 'auto'.
TaskOverrides ==
    { NoTask,
      [given |-> TRUE, batchargs |-> FALSE, nodes |-> Absent, tpn |-> Absent],
      [given |-> TRUE, batchargs |-> TRUE, nodes |-> IntOf(2), tpn |-> Absent],
      [given |-> TRUE, batchargs |-> TRUE, nodes |-> IntOf(2), tpn |-> IntOf(4)],
      [given |-> TRUE, batchargs |-> TRUE, nodes |-> Absent, tpn |-> Auto] }

\* The platform-defaults table over the platform keys in D.
PlatformDefaults(D) == [p \in D |-> IF p = "ursa" THEN 192 ELSE 8]

\* The execution part of config-default.yaml: every tasks_per_node is
\* 'auto' and no task-level override is given.
TemplateExec ==
    [pkgs |-> [p \in PackageKey |-> [prep |-> Auto, task |-> NoTask]],
     defaults |-> Auto]

\* An execution part in which every setting is an integer.
ExecExplicit ==
    [platform |-> "ursa", table |-> PlatformDefaults({ "ursa", "local" }),
     pkgs |-> [p \in PackageKey |-> [prep |-> IntOf(4), task |-> NoTask]],
     defaults |-> IntOf(4)]

\* shared.update_left of the overrides' execution part into the template's:
\* a setting the overrides give replaces the template's.
UpdateLeftExec(t, e) ==
    [platform |-> e.platform, table |-> e.table,
     pkgs |-> [p \in PackageKey |->
                 [prep |-> IF e.pkgs[p].prep = Absent THEN t.pkgs[p].prep
                           ELSE e.pkgs[p].prep,
                  task |-> IF e.pkgs[p].task.given THEN e.pkgs[p].task
                           ELSE t.pkgs[p].task]],
     defaults |-> IF e.defaults = Absent THEN t.defaults ELSE e.defaults]

\* get_str_nested(data, "platform_defaults.<platform>.ncores_per_node")
HasPlatform(d) == d.platform \in DOMAIN d.table
NCores(d) == IntOf(d.table[d.platform])

\* from_default_yaml, the body of the loop over the packages, for package p:
\* a prep tasks_per_node of 'auto' is replaced by the platform's core count,
\* and so is the tasks_per_node of a task entry whose batchargs give none.
\* A lookup of a missing key raises KeyError.
ResolvePackage(d, p) ==
    LET pk == d.pkgs[p]
        t == pk.task
    IN  IF pk.prep = Auto /\ ~HasPlatform(d)
        THEN [exec |-> d, err |-> "KeyError"]
        ELSE IF t.given /\ ~t.batchargs
        THEN [exec |-> d, err |-> "KeyError"]
        ELSE IF t.given /\ t.tpn = Absent /\ ~HasPlatform(d)
        THEN [exec |-> d, err |-> "KeyError"]
        ELSE [exec |-> [d EXCEPT
                          !.pkgs[p].prep = IF pk.prep = Auto THEN NCores(d) ELSE @,
                          !.pkgs[p].task.tpn =
                              IF t.given /\ t.tpn = Absent THEN NCores(d) ELSE @],
              err |-> "none"]

\* from_default_yaml, the loop over PackageKey from the i-th package on.
RECURSIVE ResolvePackages(_, _)
ResolvePackages(d, i) ==
    IF i > Len(PackageKeySeq) THEN [exec |-> d, err |-> "none"]
    ELSE LET r == ResolvePackage(d, PackageKeySeq[i])
         IN  IF r.err # "none" THEN r ELSE ResolvePackages(r.exec, i + 1)

\* from_default_yaml, the resolution of the tasks_per_node settings: the
\* loop over the packages, then task_defaults.
ResolveExec(d) ==
    LET r == ResolvePackages(d, 1)
    IN  IF r.err # "none" THEN r
        ELSE IF r.exec.defaults = Auto
        THEN IF HasPlatform(r.exec)
             THEN [exec |-> [r.exec EXCEPT !.defaults = NCores(r.exec)], err |-> "none"]
             ELSE [exec |-> r.exec, err |-> "KeyError"]
        ELSE r

\* Validation of the BatchArgs fields: tasks_per_node and nodes are integers
\* of at least 1 where given.
IntOrAbsent(v) == v.k = "absent" \/ (v.k = "int" /\ v.n >= 1)

ExecValid(e) ==
    /\ \A p \in PackageKey :
          /\ IntOrAbsent(e.pkgs[p].prep)
          /\ IntOrAbsent(e.pkgs[p].task.tpn)
          /\ IntOrAbsent(e.pkgs[p].task.nodes)
    /\ IntOrAbsent(e.defaults)

\* The BatchArgs defaults: nodes and tasks_per_node are 1 where not given.
Default1(v) == IF v.k = "absent" THEN IntOf(1) ELSE v

ConstructExec(e) ==
    [platform |-> e.platform, table |-> e.table,
     pkgs |-> [p \in PackageKey |->
                 [prep |-> Default1(e.pkgs[p].prep),
                  task |-> IF e.pkgs[p].task.given
                           THEN [e.pkgs[p].task EXCEPT !.batchargs = TRUE,
                                                       !.nodes = Default1(@),
                                                       !.tpn = Default1(@)]
                           ELSE NoTask]],
     defaults |-> Default1(e.defaults)]

\* Config.model_validate: the field validation of the execution settings,
\* then the validators of the models and scorecards.
ValidateConfig(r) == IF ExecValid(r.exec) THEN Validate(r) ELSE "int_parsing"

\* keyed: the entries of the nested mappings carry a "key" item already
\* (a document read from YAML carries none).
RawConfigs ==
    [models : RawModelSeqs, no_forecast : BOOLEAN, scorecards : RawScorecards,
     keyed : BOOLEAN,
     typed : { [ty |-> "list", of |-> "str"] },
     free : { [ty |-> "scalar", of |-> "str"] },
     exec : { ExecExplicit }]

CfgFixed ==
    [ pkg |-> "chem", run_mode |-> "strict", no_forecast |-> FALSE,
      models |-> << ModelE >>, scorecards |-> << >>, tasks_to_exclude |-> {},
      ndates |-> MaxDates ]

InitCfg ==
    /\ cfg = CfgFixed
    /\ fs = EmptyFs
    /\ hist = HistNone
    /\ phase = "idle"
    /\ last = LastNone
    /\ raw \in RawConfigs
    /\ verdict = "none"
    /\ val = ValNone
    /\ mrg = MrgNone
    /\ pipe = PipeNone

\* What validation does to the mapping it is handed: the before-validator of
\* AQMConfig stores each entry's map key in the entry, and the
\* before-validator of each model stores the key as the title that is None.
MutateRaw(r) ==
    [r EXCEPT !.keyed = TRUE,
              !.models = [i \in 1..Len(r.models) |-> ValidateModelBefore(r.models[i])]]

\* The configuration value validation builds from an accepted mapping.
NoConfig == [models |-> << >>, no_forecast |-> FALSE, scorecards |-> << >>]
\* A value of a configuration item is described by its container (scalar,
\* list, tuple) and the kind of its elements (str, int, date, TaskKey).
\* typed is an item of a declared type (tasks_to_exclude, a tuple of
\* TaskKey); free is an item declared Any (a model's variables or kwargs).

\* Validation of a tuple[TaskKey, ...] field: a list or tuple of task names
\* or task keys becomes a tuple of task keys.
CoerceTaskKeys(v) == [ty |-> "tuple", of |-> "TaskKey"]

Construct(r) ==
    [models |-> [i \in 1..Len(r.models) |-> ValidateModelBefore(r.models[i])],
     no_forecast |-> r.no_forecast,
     scorecards |-> r.scorecards,
     typed |-> CoerceTaskKeys(r.typed),
     free |-> r.free,
     exec |-> ConstructExec(r.exec)]

\* The models of config-default.yaml: the default host.
TemplateModels ==
    << [key |-> << "e" >>, title |-> NoTitle, color |-> "g", is_host |-> TRUE] >>

\* shared.update_left on two model entries: the items of the right entry
\* replace those of the left one; an item the right entry lacks is kept.
UpdateLeftEntry(l, r) ==
    [r EXCEPT !.title = IF r.title = NoTitle THEN l.title ELSE r.title]

\* shared.update_left on the models mappings: an entry of the right mapping
\* is merged into the left entry of the same key, or added after the left
\* entries, in the right mapping's order.
UpdateLeftModels(left, right) ==
    LET rkeys == { right[i].key : i \in 1..Len(right) }
        lkeys == { left[i].key : i \in 1..Len(left) }
        InRight(k) == right[CHOOSE i \in 1..Len(right) : right[i].key = k]
        merged == [i \in 1..Len(left) |->
                     IF left[i].key \in rkeys
                     THEN UpdateLeftEntry(left[i], InRight(left[i].key))
                     ELSE left[i]]
        added == { right[i].key : i \in 1..Len(right) } \ lkeys
    IN  merged \o SelectSeq(right, LAMBDA m : m.key \in added)

\* from_default_yaml: the default host is removed when the merged models do
\* not hold exactly one model flagged is_host.
RemoveDefaultHost(models) ==
    IF Cardinality({ i \in 1..Len(models) : models[i].is_host }) # 1
    THEN SelectSeq(models, LAMBDA m : m.key # TemplateModels[1].key)
    ELSE models

\* AQMConfig.model_validate(raw)
ValidateRaw ==
    /\ verdict = "none"
    /\ verdict' = ValidateConfig(raw)
    /\ raw' = MutateRaw(raw)
    /\ val' = [op |-> "validate", input |-> raw, merged |-> raw.models,
               config |-> IF ValidateConfig(raw) = "ok" THEN Construct(raw)
                          ELSE NoConfig]
    /\ UNCHANGED << cfg, fs, hist, phase, last, mrg, pipe >>

\* Config.from_default_yaml with raw as the overrides and raw.exec.platform
\* as the platform key: the overrides are merged into the template, the
\* default host is removed if need be, the tasks_per_node settings are
\* resolved, and the resulting mapping is validated.
FromDefaultYaml ==
    /\ verdict = "none"
    /\ LET merged == UpdateLeftModels(TemplateModels, raw.models)
           res == ResolveExec(UpdateLeftExec(TemplateExec, raw.exec))
           data == [raw EXCEPT !.models = RemoveDefaultHost(merged),
                               !.exec = res.exec]
           v == IF res.err # "none" THEN res.err ELSE ValidateConfig(data)
       IN  /\ verdict' = v
           /\ raw' = IF res.err # "none" THEN raw ELSE MutateRaw(data)
           /\ val' = [op |-> "from_default_yaml", input |-> raw, merged |-> merged,
                      config |-> IF v = "ok" THEN Construct(data) ELSE NoConfig]
    /\ UNCHANGED << cfg, fs, hist, phase, last, mrg, pipe >>

\* model_dump(mode="json") of one value: a tuple becomes a list, and an enum
\* member or a date becomes a string.
DumpJson(v) ==
    [ty |-> IF v.ty = "tuple" THEN "list" ELSE v.ty,
     of |-> IF v.of \in { "TaskKey", "date" } THEN "str" ELSE v.of]

\* Config.to_yaml with the key items left in the entries.
ToYamlKeyed(cv) ==
    [models |-> cv.models, no_forecast |-> cv.no_forecast,
     scorecards |-> cv.scorecards, keyed |-> TRUE,
     typed |-> DumpJson(cv.typed), free |-> DumpJson(cv.free),
     exec |-> cv.exec]

\* Config.to_yaml: model_dump(mode="json"); the key field of a model, package
\* or scorecard entry is declared with exclude=True, so the entries are
\* written under their map keys without a key item.
ToYaml(cv) ==
    [models |-> cv.models, no_forecast |-> cv.no_forecast,
     scorecards |-> cv.scorecards, keyed |-> FALSE,
     typed |-> DumpJson(cv.typed), free |-> DumpJson(cv.free),
     exec |-> cv.exec]

\* Config.from_yaml(cfg.to_yaml()) on the configuration value a validation
\* has produced.
RoundTrip ==
    /\ val.op = "validate"
    /\ verdict = "ok"
    /\ LET doc == ToYaml(val.config)
       IN  val' = [op |-> "round_trip", input |-> val.input, merged |-> val.merged,
                   config |-> val.config,
                   doc |-> doc,
                   docVerdict |-> ValidateConfig(doc),
                   reloaded |-> IF ValidateConfig(doc) = "ok" THEN Construct(doc)
                                ELSE NoConfig]
    /\ UNCHANGED << cfg, fs, hist, phase, last, raw, verdict, mrg, pipe >>

NextCfg == ValidateRaw \/ FromDefaultYaml

SpecCfg == InitCfg /\ [][NextCfg]_vars

(***************************************************************************)
(* The configuration document: a raw configuration is validated and the   *)
(* resulting value is serialized and loaded again.                         *)
(***************************************************************************)
DocModelSeqs ==
    { << ModelE >>, << ModelE, ModelB >>,
      << ModelE, [ModelB EXCEPT !.title = << "t" >>] >> }

DocValues ==
    { [ty |-> c, of |-> e] : c \in { "scalar", "list", "tuple" },
                             e \in { "str", "int", "date" } }

DocTaskKeyValues ==
    { [ty |-> c, of |-> e] : c \in { "list", "tuple" }, e \in { "str", "TaskKey" } }

RawDocs ==
    [models : DocModelSeqs, no_forecast : BOOLEAN, scorecards : RawScorecards,
     keyed : BOOLEAN, typed : DocTaskKeyValues, free : DocValues,
     exec : { ExecExplicit }]

InitDoc ==
    /\ cfg = CfgFixed
    /\ fs = EmptyFs
    /\ hist = HistNone
    /\ phase = "idle"
    /\ last = LastNone
    /\ raw \in RawDocs
    /\ verdict = "none"
    /\ val = ValNone
    /\ mrg = MrgNone
    /\ pipe = PipeNone

NextDoc == ValidateRaw \/ RoundTrip

SpecDoc == InitDoc /\ [][NextDoc]_vars

(***************************************************************************)
(* The execution settings: from_default_yaml is called with overrides      *)
(* whose execution part is drawn from a bounded set, over a platform-      *)
(* defaults table that holds the platform key or not.                      *)
(***************************************************************************)
PrepOverrides == { Absent, Auto, IntOf(4) }

\* The first package's overrides are drawn in full; each other package's
\* overrides give its prep tasks_per_node or nothing.
PackageOverrides ==
    { f \in [PackageKey -> [prep : PrepOverrides, task : TaskOverrides]] :
        \A p \in PackageKey \ { "chem" } :
            f[p].task = NoTask /\ f[p].prep \in { Absent, IntOf(4) } }

ExecOverrides ==
    [platform : { "ursa", "local" },
     table : { PlatformDefaults(D) : D \in { { "ursa", "local" }, { "ursa" }, {} } },
     pkgs : PackageOverrides,
     defaults : PrepOverrides]

RawOverrides ==
    [models : { << ModelB >> }, no_forecast : { FALSE }, scorecards : { << >> },
     keyed : { FALSE },
     typed : { [ty |-> "list", of |-> "str"] },
     free : { [ty |-> "scalar", of |-> "str"] },
     exec : ExecOverrides]

InitPlat ==
    /\ cfg = CfgFixed
    /\ fs = EmptyFs
    /\ hist = HistNone
    /\ phase = "idle"
    /\ last = LastNone
    /\ raw \in RawOverrides
    /\ verdict = "none"
    /\ val = ValNone
    /\ mrg = MrgNone
    /\ pipe = PipeNone

NextPlat == FromDefaultYaml

SpecPlat == InitPlat /\ [][NextPlat]_vars

(***************************************************************************)
(* The derived-field pipeline, AbstractDaskOperation.run, step by step.    *)
(* pipe holds the position in run, the operation's chunks and surf_only    *)
(* fields, the state of the two input handles (unopened, open, closed),    *)
(* the state of the output file, and where and why run has raised.         *)
(***************************************************************************)
\* run does not test out_path: an existing output file is written over.
PipeStarts ==
    [pc : { "start" },
     chunks : { "dict", "auto", "auto-aqm-eval" },
     surf_only : BOOLEAN,
     out : { "absent", "complete" },
     phy : { "unopened" }, dyn : { "unopened" },
     at : { "none" }, why : { "none" }]

InitPipe ==
    /\ cfg = CfgFixed
    /\ fs = EmptyFs
    /\ hist = HistNone
    /\ phase = "idle"
    /\ last = LastNone
    /\ raw = RawNone
    /\ verdict = "none"
    /\ val = ValNone
    /\ mrg = MrgNone
    /\ pipe \in PipeStarts

\* The outcomes of one _open_dataset_ call: it returns, or it raises in the
\* probing open made for chunks "auto-aqm-eval" (a with block, which closes
\* what it opened), in open_mfdataset itself, in the isel calls made under
\* surf_only, or in the chunk call made for chunks "auto".
OpenOutcomes(p) ==
    { "none", "open" }
    \cup (IF p.chunks = "auto-aqm-eval" THEN { "probe" } ELSE {})
    \cup (IF p.surf_only THEN { "subset" } ELSE {})
    \cup (IF p.chunks = "auto" THEN { "chunk" } ELSE {})

\* _open_dataset_: the state of the handle when the call ends with the
\* given outcome.  A failure after open_mfdataset has returned leaves the
\* dataset open: _open_dataset_ closes nothing but its probe.
OpenDataset(outcome) == IF outcome \in { "probe", "open" } THEN "unopened" ELSE "open"

\* The finally clause of run: both datasets are closed.
FinallyClose(p) == [p EXCEPT !.dyn = "closed", !.phy = "closed"]

Raised(p, at, why) == [p EXCEPT !.pc = "raised", !.at = at, !.why = why]

\* phy_dataset = self._open_dataset_("phy_path")
OpenPhy ==
    /\ pipe.pc = "start"
    /\ \E o \in OpenOutcomes(pipe) :
          pipe' = IF o = "none"
                  THEN [pipe EXCEPT !.pc = "phy_open", !.phy = OpenDataset(o)]
                  ELSE Raised([pipe EXCEPT !.phy = OpenDataset(o)], "open_phy", o)
    /\ UNCHANGED << cfg, fs, hist, phase, last, raw, verdict, val, mrg >>

\* dyn_dataset = self._open_dataset_("dyn_path"), before the try statement.
OpenDyn ==
    /\ pipe.pc = "phy_open"
    /\ \E o \in OpenOutcomes(pipe) :
          pipe' = IF o = "none"
                  THEN [pipe EXCEPT !.pc = "dyn_open", !.dyn = OpenDataset(o)]
                  ELSE Raised([pipe EXCEPT !.dyn = OpenDataset(o)], "open_dyn", o)
    /\ UNCHANGED << cfg, fs, hist, phase, last, raw, verdict, val, mrg >>

\* The try body, selecting the variables and building the merged dataset.
Select ==
    /\ pipe.pc = "dyn_open"
    /\ \E ok \in BOOLEAN :
          pipe' = IF ok THEN [pipe EXCEPT !.pc = "selected"]
                  ELSE Raised(FinallyClose(pipe), "select", "KeyError")
    /\ UNCHANGED << cfg, fs, hist, phase, last, raw, verdict, val, mrg >>

\* The try body, _compute_derived_fields_.
Derive ==
    /\ pipe.pc = "selected"
    /\ \E ok \in BOOLEAN :
          pipe' = IF ok THEN [pipe EXCEPT !.pc = "derived"]
                  ELSE Raised(FinallyClose(pipe), "derive", "error")
    /\ UNCHANGED << cfg, fs, hist, phase, last, raw, verdict, val, mrg >>

\* The try body, ds.compute(), and the finally clause that follows it.
Compute ==
    /\ pipe.pc = "derived"
    /\ \E ok \in BOOLEAN :
          pipe' = IF ok THEN [FinallyClose(pipe) EXCEPT !.pc = "closed"]
                  ELSE Raised(FinallyClose(pipe), "compute", "error")
    /\ UNCHANGED << cfg, fs, hist, phase, last, raw, verdict, val, mrg >>

\* ds.to_netcdf(self.out_path) and the return; a failure while writing
\* leaves a partial output file.
Write ==
    /\ pipe.pc = "closed"
    /\ \E ok \in BOOLEAN :
          pipe' = IF ok THEN [pipe EXCEPT !.pc = "returned", !.out = "complete"]
                  ELSE Raised([pipe EXCEPT !.out = "partial"], "write", "error")
    /\ UNCHANGED << cfg, fs, hist, phase, last, raw, verdict, val, mrg >>

NextPipe == OpenPhy \/ OpenDyn \/ Select \/ Derive \/ Compute \/ Write

SpecPipe == InitPipe /\ [][NextPipe]_vars

(***************************************************************************)
(* The deep merge shared.update_left on mapping fragments.  A fragment maps *)
(* some keys to values; a value is a leaf [t |-> "leaf", v |-> n] or a       *)
(* nested mapping [t |-> "map", v |-> fragment].                            *)
(***************************************************************************)
MergeKeyOrder == << "p", "q" >>
MergeLeaves == { [t |-> "leaf", v |-> n] : n \in { 1, 2 } }

InnerFragments == UNION { [D -> MergeLeaves] : D \in SUBSET SeqToSet(MergeKeyOrder) }
MergeValues == MergeLeaves \cup { [t |-> "map", v |-> f] : f \in InnerFragments }
Fragments == UNION { [D -> MergeValues] : D \in SUBSET SeqToSet(MergeKeyOrder) }

\* The keys of a mapping in its iteration order.
KeysInOrder(f) == SelectSeq(MergeKeyOrder, LAMBDA k : k \in DOMAIN f)

\* data_left[key] = value
SetItem(l, k, value) == [x \in DOMAIN l \cup { k } |-> IF x = k THEN value ELSE l[x]]

\* update_left assigning every item of the right mapping, nested or not.
UpdateLeftShallow(l, r, ks) ==
    [left |-> [x \in DOMAIN l \cup SeqToSet(ks) |->
                 IF x \in SeqToSet(ks) THEN r[x] ELSE l[x]],
     err |-> "none"]

\* shared.update_left over the keys ks of the right mapping that are still
\* to come: [left, err], left being data_left as the call leaves it.  A
\* right value that is no mapping has no items(): AttributeError.
RECURSIVE UpdateLeftFrom(_, _, _)
UpdateLeftFrom(l, r, ks) ==
    IF ks = << >> THEN [left |-> l, err |-> "none"]
    ELSE LET k == Head(ks)
             value == r[k]
         IN  IF k \in DOMAIN l /\ l[k].t = "map"
             THEN IF value.t # "map"
                  THEN [left |-> l, err |-> "AttributeError"]
                  ELSE LET sub == UpdateLeftFrom(l[k].v, value.v, KeysInOrder(value.v))
                           l2 == SetItem(l, k, [t |-> "map", v |-> sub.left])
                       IN  IF sub.err # "none"
                           THEN [left |-> l2, err |-> sub.err]
                           ELSE UpdateLeftFrom(l2, r, Tail(ks))
             ELSE UpdateLeftFrom(SetItem(l, k, value), r, Tail(ks))

\* shared.update_left(data_left, data_right)
UpdateLeft(l, r) == UpdateLeftFrom(l, r, KeysInOrder(r))

InitMerge ==
    /\ cfg = CfgFixed
    /\ fs = EmptyFs
    /\ hist = HistNone
    /\ phase = "idle"
    /\ last = LastNone
    /\ raw = RawNone
    /\ verdict = "none"
    /\ val = ValNone
    /\ mrg \in [op : { "none" }, a : Fragments, b : Fragments]
    /\ pipe = PipeNone

\* b is merged into a, b is merged into the result once more, and a is
\* merged into itself.
Merge ==
    /\ mrg.op = "none"
    /\ LET ab == UpdateLeft(mrg.a, mrg.b)
       IN  mrg' = [op |-> "merged", a |-> mrg.a, b |-> mrg.b,
                   ab |-> ab,
                   abb |-> UpdateLeft(ab.left, mrg.b),
                   aa |-> UpdateLeft(mrg.a, mrg.a)]
    /\ UNCHANGED << cfg, fs, hist, phase, last, raw, verdict, val, pipe >>

NextMerge == Merge

SpecMerge == InitMerge /\ [][NextMerge]_vars

(***************************************************************************)
(* update_left on dict objects.  Python mappings are objects: mrg.heap     *)
(* maps the address of every dict to its items, an item being a leaf or    *)
(* the reference [t |-> "ref", v |-> address] of a nested dict.  The dict  *)
(* at << "L" >> is data_left, those at << "R" >> and << "S" >> are the     *)
(* right operands of two merges, the caller's overrides.                   *)
(***************************************************************************)
MaxMergeSteps == 3

RootFragments == { f \in Fragments : DOMAIN f \subseteq { "p" } }

HeapRoots == { << "L" >>, << "R" >>, << "S" >> }
HeapAddrs == HeapRoots \cup { a \o << k >> : a \in HeapRoots, k \in SeqToSet(MergeKeyOrder) }

\* The dict objects a literal fragment with root address a consists of.
Load(a, f) ==
    [x \in HeapAddrs |->
        IF x = a
        THEN [k \in DOMAIN f |->
                IF f[k].t = "map" THEN [t |-> "ref", v |-> a \o << k >>] ELSE f[k]]
        ELSE IF Len(x) = 2 /\ x[1] = a[1] /\ x[2] \in DOMAIN f /\ f[x[2]].t = "map"
        THEN f[x[2]].v
        ELSE << >>]

\* The value of the dict at address a: its items, nested dicts followed.
RECURSIVE Deref(_, _)
Deref(h, a) ==
    [k \in DOMAIN h[a] |->
        IF h[a][k].t = "ref" THEN [t |-> "map", v |-> Deref(h, h[a][k].v)]
        ELSE h[a][k]]

\* shared.update_left on the dicts at addresses l and r, over the keys ks of
\* the right dict that are still to come: [h, err].  data_left[key] = value
\* stores the value itself, for a nested dict its reference.
RECURSIVE UpdateLeftAt(_, _, _, _)
UpdateLeftAt(h, l, r, ks) ==
    IF ks = << >> THEN [h |-> h, err |-> "none"]
    ELSE LET k == Head(ks)
             value == h[r][k]
         IN  IF k \in DOMAIN h[l] /\ h[l][k].t = "ref"
             THEN IF value.t # "ref"
                  THEN [h |-> h, err |-> "AttributeError"]
                  ELSE LET sub == UpdateLeftAt(h, h[l][k].v, value.v,
                                               KeysInOrder(h[value.v]))
                       IN  IF sub.err # "none" THEN sub
                           ELSE UpdateLeftAt(sub.h, l, r, Tail(ks))
             ELSE UpdateLeftAt([h EXCEPT ![l] = SetItem(@, k, value)], l, r, Tail(ks))

\* from_default_yaml's loop over the task entries of the merged data, from
\* the keys ks on: an entry's mapping that has no "q" item (tasks_per_node)
\* receives one.
RECURSIVE ResolveTasksPerNode(_, _, _)
ResolveTasksPerNode(h, l, ks) ==
    IF ks = << >> THEN h
    ELSE LET k == Head(ks)
             entry == h[l][k]
         IN  IF entry.t = "ref" /\ "q" \notin DOMAIN h[entry.v]
             THEN ResolveTasksPerNode(
                    [h EXCEPT ![entry.v] = SetItem(@, "q", [t |-> "leaf", v |-> 2])],
                    l, Tail(ks))
             ELSE ResolveTasksPerNode(h, l, Tail(ks))

InitAlias ==
    /\ cfg = CfgFixed
    /\ fs = EmptyFs
    /\ hist = HistNone
    /\ phase = "idle"
    /\ last = LastNone
    /\ raw = RawNone
    /\ verdict = "none"
    /\ val = ValNone
    /\ \E l \in RootFragments, r \in RootFragments, q \in RootFragments :
          mrg = [heap |-> [x \in HeapAddrs |->
                             IF x[1] = "L" THEN Load(<< "L" >>, l)[x]
                             ELSE IF x[1] = "R" THEN Load(<< "R" >>, r)[x]
                             ELSE Load(<< "S" >>, q)[x]],
                 r0 |-> r, s0 |-> q, steps |-> << >>, err |-> "none"]
    /\ pipe = PipeNone

\* update_left(data_left, right) with one of the two right operands.
MergeRight ==
    /\ Len(mrg.steps) < MaxMergeSteps
    /\ \E r \in { << "R" >>, << "S" >> } :
          LET res == UpdateLeftAt(mrg.heap, << "L" >>, r, KeysInOrder(mrg.heap[r]))
          IN  mrg' = [mrg EXCEPT !.heap = res.h, !.err = res.err,
                                 !.steps = Append(@, r[1])]
    /\ UNCHANGED << cfg, fs, hist, phase, last, raw, verdict, val, pipe >>

\* The resolution of the merged data in from_default_yaml.
Resolve ==
    /\ Len(mrg.steps) < MaxMergeSteps
    /\ mrg' = [mrg EXCEPT
                 !.heap = ResolveTasksPerNode(@, << "L" >>, KeysInOrder(@[<< "L" >>])),
                 !.steps = Append(@, "resolve")]
    /\ UNCHANGED << cfg, fs, hist, phase, last, raw, verdict, val, pipe >>

NextAlias == MergeRight \/ Resolve

SpecAlias == InitAlias /\ [][NextAlias]_vars

(***************************************************************************)
(* Two packages on one filesystem.  fs is the set of the entries that      *)
(* exist, each a path (a sequence of components) with its kind; a package  *)
(* object reads and writes the entries at the paths it derives from its    *)
(* key.  hist holds, per package, the filesystem the package's own calls   *)
(* would have produced on their own.                                       *)
(***************************************************************************)
PkgPair == { "chem", "ish" }

\* ctx.mm_config.run_dir and ctx.mm_config.output_dir
RunDirRoot == << "run_dir" >>
OutputDirRoot == << "output_dir" >>

\* AbstractEvalPackage.output_dir with the package key left out.
PkgOutputDirShared(k) == OutputDirRoot

\* AbstractEvalPackage.run_dir, link_alldays_path and output_dir
PkgRunDir(k) == RunDirRoot \o << k >>
LinkAlldaysPath(k) == PkgRunDir(k) \o << "data" >>
PkgOutputDir(k) == OutputDirRoot \o << k >>

\* The entries that the artifacts f of package k are on the filesystem, at
\* the paths initialize() and run() derive.
PathsOf(k, f) ==
    (IF f.roots THEN { [path |-> RunDirRoot, st |-> "dir"],
                       [path |-> OutputDirRoot, st |-> "dir"] } ELSE {})
    \cup (IF f.runDir THEN { [path |-> PkgRunDir(k), st |-> "dir"] } ELSE {})
    \cup (IF f.data THEN { [path |-> LinkAlldaysPath(k), st |-> "dir"] } ELSE {})
    \cup (IF f.out THEN { [path |-> PkgOutputDir(k), st |-> "dir"] } ELSE {})
    \cup (IF f.parm
          THEN { [path |-> PkgRunDir(k) \o << "melodies_monet_parm.yaml" >>, st |-> "file"],
                 [path |-> PkgRunDir(k) \o << "namelist.yaml" >>, st |-> "file"] }
          ELSE {})
    \cup { [path |-> PkgRunDir(k) \o << "control" >> \o l, st |-> "file"] : l \in f.control }
    \cup { [path |-> LinkAlldaysPath(k) \o << "derived", p >>, st |-> f.derived[p]] :
             p \in { q \in AllPairs : f.derived[q] # "absent" } }
    \cup { [path |-> LinkAlldaysPath(k) \o << "link", l >>, st |-> "link"] : l \in f.links }
    \cup (IF f.paired THEN { [path |-> PkgOutputDir(k) \o << "paired" >>, st |-> "file"] }
          ELSE {})

Exists(g, path) == \E e \in g : e.path = path

\* The control labels a package object may look for.
ControlLabelUniverse ==
    { << t >> : t \in SeqToSet(TaskKey) }
    \cup { << "scorecard", ScorecardMethod[m], ScorecardKeySeq[i] >> :
             m \in 1..Len(ScorecardMethod), i \in 1..Len(ScorecardKeySeq) }

\* The artifacts package k finds on the filesystem g, at the same paths.
ViewOf(k, g) ==
    [ roots   |-> Exists(g, RunDirRoot) /\ Exists(g, OutputDirRoot),
      runDir  |-> Exists(g, PkgRunDir(k)),
      data    |-> Exists(g, LinkAlldaysPath(k)),
      out     |-> Exists(g, PkgOutputDir(k)),
      parm    |-> Exists(g, PkgRunDir(k) \o << "melodies_monet_parm.yaml" >>),
      control |-> { l \in ControlLabelUniverse :
                      Exists(g, PkgRunDir(k) \o << "control" >> \o l) },
      derived |-> [p \in AllPairs |->
                     LET path == LinkAlldaysPath(k) \o << "derived", p >>
                     IN  IF [path |-> path, st |-> "complete"] \in g THEN "complete"
                         ELSE IF [path |-> path, st |-> "partial"] \in g THEN "partial"
                         ELSE "absent"],
      links   |-> { l \in ModelKeyUniverse \X (1..MaxDates) \X (1..(FilesPerCycle + 2)) :
                      Exists(g, LinkAlldaysPath(k) \o << "link", l >>) },
      paired  |-> Exists(g, PkgOutputDir(k) \o << "paired" >>) ]

\* The filesystem g after the entries w have been written: an entry of g at
\* a written path is replaced.
WriteEntries(g, w) == { e \in g : \A x \in w : x.path # e.path } \cup w

PkgsConfigs ==
    { c \in OrchConfigs :
        c.pkg = "chem" /\ c.tasks_to_exclude = {} /\ c.scorecards = << >> }

PkgsLastNone == [pkg |-> "none", op |-> "none", err |-> "none", alone |-> "none",
                 changed |-> {}]

InitPkgs ==
    /\ cfg \in PkgsConfigs
    /\ fs = {}
    /\ hist = [k \in PkgPair |-> EmptyFs]
    /\ phase = "idle"
    /\ last = PkgsLastNone
    /\ raw = RawNone
    /\ verdict = "none"
    /\ val = ValNone
    /\ mrg = MrgNone
    /\ pipe = PipeNone

\* The paths at which g and h differ.
ChangedPaths(g, h) == { e.path : e \in (g \ h) \cup (h \ g) }

\* initialize() of the package k, on the shared filesystem.
PkgInitialize ==
    /\ phase = "idle"
    /\ \E k \in PkgPair, failAt \in 0..1, failMode \in { "raise", "partial" } :
          /\ (failAt = 0 \/ k \notin DaskPackages) => failMode = "raise"
          /\ k \notin DaskPackages => failAt = 0
          /\ LET c == [cfg EXCEPT !.pkg = k]
                 r == PackageInitialize(c, ViewOf(k, fs), failAt, failMode)
                 a == PackageInitialize(c, hist[k], failAt, failMode)
                 g == WriteEntries(fs, PathsOf(k, r.fs))
             IN  /\ fs' = g
                 /\ hist' = [hist EXCEPT ![k] = a.fs]
                 /\ last' = [pkg |-> k, op |-> "init", err |-> r.err, alone |-> a.err,
                             changed |-> ChangedPaths(fs, g)]
    /\ UNCHANGED << cfg, phase, raw, verdict, val, mrg, pipe >>

\* run(task_label) of the package k, on the shared filesystem.
PkgRun ==
    /\ phase = "idle"
    /\ \E k \in PkgPair, label \in { << "save_paired" >>, << "stats" >>, << "bogus" >> } :
          LET c == [cfg EXCEPT !.pkg = k]
              r == PackageRun(c, ViewOf(k, fs), label, FALSE, 0)
              a == PackageRun(c, hist[k], label, FALSE, 0)
              g == WriteEntries(fs, PathsOf(k, r.fs))
          IN  /\ fs' = g
              /\ hist' = [hist EXCEPT ![k] = a.fs]
              /\ last' = [pkg |-> k, op |-> "run", err |-> r.err, alone |-> a.err,
                          changed |-> ChangedPaths(fs, g)]
    /\ UNCHANGED << cfg, phase, raw, verdict, val, mrg, pipe >>

NextPkgs == PkgInitialize \/ PkgRun

SpecPkgs == InitPkgs /\ [][NextPkgs]_vars

(***************************************************************************)
(* ForecastFileSpec: the dynamics and physics files of one cycle           *)
(* directory.  A file name dynf<digits>.nc or phyf<digits>.nc is           *)
(* represented by its digits; raw holds the names present in the           *)
(* directory, val the two sequences computed from them.                    *)
(***************************************************************************)
HourNames == { << 0, 0 >>, << 0, 1 >>, << 1, 0 >> }

\* re.match(r".*dynf0+\.nc", name): the digits are all zeros.
IsZeroHourName(n) == \A i \in 1..Len(n) : n[i] = 0

\* The forecast hour a name stands for.
HourOf(n) == 10 * n[1] + n[2]

\* The orders in which Path.glob may yield the names in S: glob yields
\* directory entries in the order of the directory scan, which is
\* unspecified.
GlobOrders(S) ==
    { q \in [1..Cardinality(S) -> S] : \A i, j \in 1..Cardinality(S) : i # j => q[i] # q[j] }

\* ForecastFileSpec.dyn_path / phy_path on one glob result.
NonZeroHourPaths(globbed) == SelectSeq(globbed, LAMBDA n : ~IsZeroHourName(n))

CycleDirs == [dyn : SUBSET HourNames, phy : SUBSET HourNames]

InitFiles ==
    /\ cfg = CfgFixed
    /\ fs = EmptyFs
    /\ hist = HistNone
    /\ phase = "idle"
    /\ last = LastNone
    /\ raw \in CycleDirs
    /\ verdict = "none"
    /\ val = ValNone
    /\ mrg = MrgNone
    /\ pipe = PipeNone

\* ForecastFileSpec(src_dir=...) with its dyn_path and phy_path evaluated.
BuildForecastFileSpec ==
    /\ val.op = "none"
    /\ \E gd \in GlobOrders(raw.dyn), gp \in GlobOrders(raw.phy) :
          val' = [op |-> "file_spec",
                  dyn_path |-> NonZeroHourPaths(gd),
                  phy_path |-> NonZeroHourPaths(gp)]
    /\ UNCHANGED << cfg, fs, hist, phase, last, raw, verdict, mrg, pipe >>

NextFiles == BuildForecastFileSpec

SpecFiles == InitFiles /\ [][NextFiles]_vars

(***************************************************************************)
(* Chunking (shared.calc_2d_chunks and its use in _open_dataset_).  raw    *)
(* holds an operation's chunks field, its worker count and the sizes of    *)
(* the dataset's dimensions; val the chunks handed to open_mfdataset.      *)
(***************************************************************************)
\* floor(sqrt(n)), n >= 0
FloorSqrt(n) == CHOOSE s \in 0..n : s * s <= n /\ (s + 1) * (s + 1) > n

\* np.ceil(np.sqrt(n)), n >= 1
CeilSqrt(n) == CHOOSE s \in 1..n : s * s >= n /\ (s - 1) * (s - 1) < n

\* np.ceil(v / d), v >= 0 and d >= 1
CeilDiv(v, d) == (v + d - 1) \div d

\* shared.calc_2d_chunks
Calc2dChunks(dims, n_chunks) ==
    LET n == IF n_chunks < 1 THEN 1 ELSE n_chunks
        per_dim == CeilSqrt(n)
    IN  [k \in DOMAIN dims |-> CeilDiv(dims[k], per_dim)]

\* The chunks fields an operation is given: the two automatic modes and
\* explicit specifications.
ChunkFields ==
    { [mode |-> "auto-aqm-eval", spec |-> << >>], [mode |-> "auto", spec |-> << >>] }
    \cup { [mode |-> "explicit", spec |-> [time |-> t]] : t \in 1..MaxTime }

ChunkInputs ==
    [chunks : ChunkFields,
     dask_num_workers : 0..MaxWorkers,
     sizes : [grid_xt : 1..MaxDim, grid_yt : 1..MaxDim, time : 1..MaxTime]]

\* _open_dataset_: the chunks argument of the open_mfdataset call that opens
\* the dataset.
LocalChunks(op) ==
    IF op.chunks.mode = "auto-aqm-eval"
    THEN [mode |-> "explicit",
          spec |-> Calc2dChunks([grid_xt |-> op.sizes.grid_xt, grid_yt |-> op.sizes.grid_yt],
                                op.dask_num_workers - op.sizes.time)]
    ELSE op.chunks

InitChunks ==
    /\ cfg = CfgFixed
    /\ fs = EmptyFs
    /\ hist = HistNone
    /\ phase = "idle"
    /\ last = LastNone
    /\ raw \in ChunkInputs
    /\ verdict = "none"
    /\ val = ValNone
    /\ mrg = MrgNone
    /\ pipe = PipeNone

OpenWithChunks ==
    /\ val.op = "none"
    /\ val' = [op |-> "chunks", local_chunks |-> LocalChunks(raw)]
    /\ UNCHANGED << cfg, fs, hist, phase, last, raw, verdict, mrg, pipe >>

NextChunks == OpenWithChunks

SpecChunks == InitChunks /\ [][NextChunks]_vars

(***************************************************************************)
(* The meteorological derived fields (package/ish.py).  raw holds, for     *)
(* every (model, cycle date) pair, the minimum and the 90th percentile of  *)
(* the 2-m relative humidity computed from the pair's input files.         *)
(***************************************************************************)
RhFloor == 0         \* rh.min() > 0
RhCeiling == 100     \* rh.quantile(0.9) < 100

RhStats == [min : { RhFloor - 1, RhFloor, RhFloor + 1 },
            q90 : { RhCeiling - 1, RhCeiling }]

\* _compute_derived_fields_ with the relative humidity clamped into range
\* instead of checked.
RhSanityClamped(st) == "none"

\* ISH_PreprocessDaskOperation._compute_derived_fields_: the sanity check on
\* the relative humidity.
RhSanity(st) ==
    IF ~(st.min > RhFloor /\ st.q90 < RhCeiling) THEN "ValueError" ELSE "none"

\* The index of the first forecast file spec, from the i-th on, whose
\* pipeline run raises in the sanity check: the spec's output file is absent
\* (the run is reached) and its relative humidity fails the check.  0 if
\* there is none.
RECURSIVE FirstRhFailure(_, _, _, _)
FirstRhFailure(c, f, stats, i) ==
    LET specs == ForecastFileSpecs(MmModels(c), c.ndates)
    IN  IF i > Len(specs) THEN 0
        ELSE IF f.derived[specs[i]] = "absent" /\ RhSanity(stats[specs[i]]) # "none"
        THEN i
        ELSE FirstRhFailure(c, f, stats, i + 1)

RhConfigs == { c \in OrchConfigs : c.pkg = "ish" /\ c.tasks_to_exclude = {}
                                   /\ c.scorecards = << >> }

InitRh ==
    /\ cfg \in RhConfigs
    /\ fs = EmptyFs
    /\ hist = HistNone
    /\ phase = "idle"
    /\ last = LastNone
    /\ raw \in [AllPairs -> RhStats]
    /\ verdict = "none"
    /\ val = ValNone
    /\ mrg = MrgNone
    /\ pipe = PipeNone

\* initialize() of the ISH package: a pipeline run raises where the sanity
\* check of its derived relative humidity does, inside the try statement of
\* run, before anything is written.
IshInitialize ==
    /\ phase = "idle"
    /\ LET failAt == FirstRhFailure(cfg, fs, raw, 1)
           r == PackageInitialize(cfg, fs, failAt, "raise")
       IN  /\ fs' = r.fs
           /\ hist' = [hist EXCEPT !.initCalled = TRUE,
                                   !.initOk = @ \/ r.err = "none"]
           /\ last' = [LastNone EXCEPT !.op = "init", !.err = r.err,
                                       !.pre = fs, !.histPre = hist,
                                       !.wrote = r.wrote, !.runs = r.runs]
    /\ phase' = "returned"
    /\ UNCHANGED << cfg, raw, verdict, val, mrg, pipe >>

NextRh == IshInitialize \/ Return

SpecRh == InitRh /\ [][NextRh]_vars

(***************************************************************************)
(* The workflow task group (rocoto/srw_model.py).  cfg is a configuration  *)
(* with its packages map; val holds the group from_config builds from it,  *)
(* hist each package's run directory after its initialize().  A task name  *)
(* task_mm_<package>_run_<task> is the token sequence of its parts.        *)
(***************************************************************************)
GroupPkgSeq == << "chem", "ish" >>

GroupExcludeChoices == { {}, { "timeseries" }, { "save_paired" }, { "stats" } }

GroupPackages ==
    [ SeqToSet(GroupPkgSeq) -> [active : BOOLEAN,
                                tasks_to_exclude : GroupExcludeChoices] ]

GroupConfigs ==
    { [ no_forecast |-> c.no_forecast, models |-> c.models,
        scorecards |-> c.scorecards, run_mode |-> c.run_mode,
        ndates |-> c.ndates, packages |-> p ] :
        c \in { d \in OrchConfigs : d.pkg = "chem" /\ d.tasks_to_exclude = {}
                                    /\ d.run_mode = "strict" },
        p \in GroupPackages }

\* The configuration as the package object of package k reads it.
PackageView(g, k) ==
    [ pkg |-> k, run_mode |-> g.run_mode, no_forecast |-> g.no_forecast,
      models |-> g.models, scorecards |-> g.scorecards,
      tasks_to_exclude |-> g.packages[k].tasks_to_exclude, ndates |-> g.ndates ]

\* AqmPrep: task_name and the tasks its dependency names.
AqmPrep(k) ==
    [ package_key |-> k,
      task_name |-> << "task", "mm", k, "prep" >>,
      deps |-> { << "run_fcst_mem000" >> } ]

\* AqmEvalTask: task_name, the MM_EVAL_TASK variable and the task its
\* dependency names.
AqmEvalTask(k, t) ==
    [ package_key |-> k,
      task_key |-> t,
      task_name |-> << "task", "mm", k, "run", t >>,
      mm_eval_task |-> << t >>,
      deps |-> { IF t = "save_paired" THEN << "mm", k, "prep" >>
                 ELSE << "mm", k, "run", "save_paired" >> } ]

\* AqmConcatStatsTask
AqmConcatStatsTask(active) ==
    [ active_package_keys |-> active,
      task_name |-> << "task", "mm", "concat", "stats" >>,
      deps |-> { << "mm", active[i], "run", "stats" >> : i \in 1..Len(active) } ]

\* The task keys from_config schedules for the active package k.
ScheduledTaskKeys(g, k) ==
    FilterSeq(TasksDefault(k),
              { t \in SeqToSet(TaskKey) :
                  /\ ~(NModelsToEvaluate(g) = 1 /\ StartsWithScorecard(<< t >>))
                  /\ t \notin g.packages[k].tasks_to_exclude })

\* AqmTaskGroup.from_config over the packages from the i-th on.
RECURSIVE FromConfigFrom(_, _)
FromConfigFrom(g, i) ==
    IF i > Len(GroupPkgSeq)
    THEN [packages |-> << >>, tasks |-> << >>, active |-> << >>]
    ELSE LET k == GroupPkgSeq[i]
             rest == FromConfigFrom(g, i + 1)
             keys == ScheduledTaskKeys(g, k)
         IN  IF ~g.packages[k].active THEN rest
             ELSE [packages |-> << AqmPrep(k) >> \o rest.packages,
                   tasks |-> [j \in 1..Len(keys) |-> AqmEvalTask(k, keys[j])]
                             \o rest.tasks,
                   active |-> (IF \E j \in 1..Len(keys) : keys[j] = "stats"
                               THEN << k >> ELSE << >>) \o rest.active]

\* AqmTaskGroup.from_config
GroupFromConfig(g) ==
    LET r == FromConfigFrom(g, 1)
    IN  [packages |-> r.packages, tasks |-> r.tasks,
         concat_task |-> AqmConcatStatsTask(r.active)]

\* AqmTaskGroup.to_yaml: the emitted tasks, keyed by task_name.
GroupToYaml(grp) ==
    { [task_name |-> x.task_name, deps |-> x.deps] :
        x \in SeqToSet(grp.packages) \cup SeqToSet(grp.tasks) }
    \cup (IF Len(grp.concat_task.active_package_keys) >= 1
          THEN { [task_name |-> grp.concat_task.task_name,
                  deps |-> grp.concat_task.deps] }
          ELSE {})

\* The name a dependency refers to the task under the key task_<name> by.
RocotoName(task_name) == Tail(task_name)

InitGroup ==
    /\ cfg \in GroupConfigs
    /\ fs = EmptyFs
    /\ hist = [k \in SeqToSet(GroupPkgSeq) |-> EmptyFs]
    /\ phase = "idle"
    /\ last = [k \in SeqToSet(GroupPkgSeq) |-> "notcalled"]
    /\ raw = RawNone
    /\ verdict = "none"
    /\ val = ValNone
    /\ mrg = MrgNone
    /\ pipe = PipeNone

\* The workflow is generated from the configuration.
FromConfig ==
    /\ val.op = "none"
    /\ val' = [op |-> "group", group |-> GroupFromConfig(cfg)]
    /\ UNCHANGED << cfg, fs, hist, phase, last, raw, verdict, mrg, pipe >>

\* The prep task of an active package runs initialize() in the package's
\* run directory.
GroupInitialize ==
    \E k \in SeqToSet(GroupPkgSeq) :
        /\ cfg.packages[k].active
        /\ last[k] = "notcalled"
        /\ LET r == PackageInitialize(PackageView(cfg, k), hist[k], 0, "raise")
           IN  /\ hist' = [hist EXCEPT ![k] = r.fs]
               /\ last' = [last EXCEPT ![k] = r.err]
        /\ UNCHANGED << cfg, fs, phase, raw, verdict, val, mrg, pipe >>

NextGroup == FromConfig \/ GroupInitialize

SpecGroup == InitGroup /\ [][NextGroup]_vars

(***************************************************************************)
(* The files of the data directory and the wildcard that selects a model's *)
(* files.  Keys and file names are sequences of characters; fs is the set  *)
(* of the files created, each with the model it was created for.           *)
(***************************************************************************)
MaxGlobFiles == 2

GlobChars == { "a", "_", "." }
NcSuffix == << ".", "n", "c" >>
DynfStem == << "d", "y", "n", "f" >>

GlobKeys == { k \in SeqsUpTo(GlobChars, 2) : k # << >> }

\* The names of the cycle-date directories and the source files matching
\* dynf*.nc that a cycle directory may hold.
GlobDirNames == { << "1" >>, << "a" >>, << "_", "a" >> }
GlobSrcNames == { DynfStem \o x \o NcSuffix : x \in { << >>, << "a" >>, << "_" >> } }

GlobConfigs ==
    { c \in [ pkg : { "chem" }, run_mode : { "strict" }, no_forecast : BOOLEAN,
              models : { << [ModelE EXCEPT !.key = k1], [ModelB EXCEPT !.key = k2] >> :
                           k1 \in GlobKeys, k2 \in GlobKeys },
              scorecards : { << >> }, tasks_to_exclude : { {} },
              ndates : { 1 } ] :
        Validate(c) = "ok" }

\* The wildcard naming every file under the data directory.
LinkAlldaysPathTemplateAnyModel(key) == [prefix |-> << >>, suffix |-> NcSuffix]

\* Model.link_alldays_path_template: <data dir>/<prefix>*.nc, the pattern as
\* its literal parts before and after the star.
LinkAlldaysPathTemplate(key) == [prefix |-> key, suffix |-> NcSuffix]

\* The match of a file name against a pattern with one star.
GlobMatch(pattern, name) ==
    /\ Len(name) >= Len(pattern.prefix) + Len(pattern.suffix)
    /\ SubSeq(name, 1, Len(pattern.prefix)) = pattern.prefix
    /\ SubSeq(name, Len(name) - Len(pattern.suffix) + 1, Len(name)) = pattern.suffix

\* create_symlinks: f"{dst_prefix}_{subdir.name}_{src_file.name}"
LinkName(key, dir, src) == key \o << "_" >> \o dir \o << "_" >> \o src

\* ForecastFileSpec.out_path: f"{model.label}_{dir_path.name}" + ".nc"
OutName(key, dir) == key \o << "_" >> \o dir \o NcSuffix

InitGlob ==
    /\ cfg \in GlobConfigs
    /\ fs = {}
    /\ hist = HistNone
    /\ phase = "idle"
    /\ last = LastNone
    /\ raw = RawNone
    /\ verdict = "none"
    /\ val = ValNone
    /\ mrg = MrgNone
    /\ pipe = PipeNone

\* create_symlinks links one source file of an evaluated model.
CreateLink ==
    /\ Cardinality(fs) < MaxGlobFiles
    /\ \E i \in 1..Len(MmModels(cfg)), dir \in GlobDirNames, src \in GlobSrcNames :
          LET key == MmModels(cfg)[i]
          IN  fs' = fs \cup { [model |-> key, name |-> LinkName(key, dir, src)] }
    /\ UNCHANGED << cfg, hist, phase, last, raw, verdict, val, mrg, pipe >>

\* A pipeline run writes the derived file of one cycle of an evaluated model.
WriteDerived ==
    /\ Cardinality(fs) < MaxGlobFiles
    /\ \E i \in 1..Len(MmModels(cfg)), dir \in GlobDirNames :
          LET key == MmModels(cfg)[i]
          IN  fs' = fs \cup { [model |-> key, name |-> OutName(key, dir)] }
    /\ UNCHANGED << cfg, hist, phase, last, raw, verdict, val, mrg, pipe >>

NextGlob == CreateLink \/ WriteDerived

SpecGlob == InitGlob /\ [][NextGlob]_vars

(***************************************************************************)
(* The S3 sync runner (aqm_data_sync/core.py).  pipe holds the system's    *)
(* default.s3.max_concurrent_requests setting, the runner's context and    *)
(* the outcome of run().  A setting or a context value is Absent (not set, *)
(* None) or IntOf(n).                                                      *)
(***************************************************************************)
MaxRequests == 3

RequestSettings == { Absent } \cup { IntOf(n) : n \in 1..MaxRequests }

\* AbstractContext.system_max_concurrent_requests: a property computed at
\* every access from the setting as it is then; aws configure get fails
\* (CalledProcessError) on a setting that is not set, which gives None.
SystemMaxConcurrentRequests(sys) ==
    IF sys.k = "absent" THEN Absent ELSE IntOf(sys.n)

\* AbstractS3SyncRunner._handle_max_concurrent_request_reset_: [sys, err].
HandleMaxConcurrentRequestReset(sys, resetOk) ==
    LET value == SystemMaxConcurrentRequests(sys)
    IN  IF value # Absent
        THEN IF resetOk THEN [sys |-> SystemMaxConcurrentRequests(sys), err |-> "none"]
             ELSE [sys |-> sys, err |-> "CalledProcessError"]
        ELSE [sys |-> sys, err |-> "none"]

\* AbstractS3SyncRunner._run_impl_: [sys, err, synced].
RunImpl(ctx, sys, setOk, syncOk) ==
    IF ctx.max_concurrent_requests # Absent /\ ~setOk
    THEN [sys |-> sys, err |-> "CalledProcessError", synced |-> FALSE]
    ELSE LET sys1 == IF ctx.max_concurrent_requests # Absent
                     THEN ctx.max_concurrent_requests ELSE sys
         IN  [sys |-> sys1,
              err |-> IF syncOk THEN "none" ELSE "CalledProcessError",
              synced |-> syncOk]

\* AbstractS3SyncRunner.run: the try body, then finalize() in the finally
\* clause; an exception of finalize() replaces the one in flight.
SyncRunnerRun(ctx, sys, setOk, syncOk, resetOk) ==
    LET body == RunImpl(ctx, sys, setOk, syncOk)
        fin == HandleMaxConcurrentRequestReset(body.sys, resetOk)
    IN  [sys |-> fin.sys,
         err |-> IF fin.err # "none" THEN fin.err ELSE body.err,
         synced |-> body.synced,
         finalized |-> 1]

InitSync ==
    /\ cfg = CfgFixed
    /\ fs = EmptyFs
    /\ hist = HistNone
    /\ phase = "idle"
    /\ last = LastNone
    /\ raw = RawNone
    /\ verdict = "none"
    /\ val = ValNone
    /\ mrg = MrgNone
    /\ \E sys \in RequestSettings, m \in RequestSettings, dry \in BOOLEAN :
          pipe = [pc |-> "idle", sys |-> sys, sys0 |-> sys,
                  ctx |-> [max_concurrent_requests |-> m, dry_run |-> dry],
                  err |-> "none", synced |-> FALSE, finalized |-> 0]

\* One call of run() on a runner built from the context.
SyncRun ==
    /\ pipe.pc = "idle"
    /\ \E setOk \in BOOLEAN, syncOk \in BOOLEAN, resetOk \in BOOLEAN :
          LET r == SyncRunnerRun(pipe.ctx, pipe.sys, setOk, syncOk, resetOk)
          IN  pipe' = [pipe EXCEPT !.pc = "done", !.sys = r.sys, !.err = r.err,
                                   !.synced = r.synced, !.finalized = r.finalized]
    /\ UNCHANGED << cfg, fs, hist, phase, last, raw, verdict, val, mrg >>

NextSync == SyncRun

SpecSync == InitSync /\ [][NextSync]_vars

(***************************************************************************)
(* Properties.  A property about a call is stated on the state in which    *)
(* the call has just returned: last holds its arguments, the filesystem    *)
(* before it (last.pre) and its outcome, fs the filesystem after it.       *)
(***************************************************************************)
InitReturned == phase = "returned" /\ last.op = "init"
RunReturned == phase = "returned" /\ last.op = "run"

\* The (model, cycle date) pairs initialize() iterates over.
EvaluatedPairs == SeqToSet(ForecastFileSpecs(MmModels(cfg), cfg.ndates))

\* No artifact that existed before the call was written by it.
NoPreExistingWritten ==
    /\ ~(last.wrote.parm /\ last.pre.parm)
    /\ last.wrote.control \cap last.pre.control = {}
    /\ \A p \in AllPairs : last.pre.derived[p] # "absent" => p \notin last.wrote.derived
    /\ last.wrote.links \cap last.pre.links = {}

\* C1: under strict run mode initialize() fails when run_dir/<package>/data
\* or output_dir/<package> exists already, and then modifies no artifact
\* that existed; under resume the existing subdirectories are reused and
\* initialize() does not fail on them.
C1_StrictFailsOnExistingDirs ==
    (InitReturned /\ (last.pre.data \/ last.pre.out)) =>
        IF cfg.run_mode = "strict"
        THEN last.err # "none" /\ NoPreExistingWritten
        ELSE last.err # "FileExistsError"

\* C2: in a derived-field package, one initialize() runs the pipeline at most
\* once per pair and only for evaluated pairs whose output file was absent;
\* when initialize() completes, it has run it exactly once for every such
\* pair; a pair whose output file existed is never computed and its file is
\* left as it was; and under strict an existing output file of an evaluated
\* pair makes initialize() raise.
C2_PipelineOncePerAbsentPair ==
    (InitReturned /\ cfg.pkg \in DaskPackages) =>
        /\ \A p \in AllPairs :
              /\ last.runs[p] <= 1
              /\ last.runs[p] = 1 =>
                    (p \in EvaluatedPairs /\ last.pre.derived[p] = "absent")
              /\ last.pre.derived[p] # "absent" =>
                    (last.runs[p] = 0 /\ fs.derived[p] = last.pre.derived[p])
        /\ last.err = "none" =>
              \A p \in EvaluatedPairs :
                  last.pre.derived[p] = "absent" => last.runs[p] = 1
        /\ (cfg.run_mode = "strict"
            /\ \E p \in EvaluatedPairs : last.pre.derived[p] # "absent")
              => last.err # "none"

\* A resume initialize() that skipped one existing output file and computed
\* another, absent one.
C2_Witness ==
    /\ InitReturned
    /\ cfg.pkg \in DaskPackages
    /\ cfg.run_mode = "resume"
    /\ last.err = "none"
    /\ \E p \in EvaluatedPairs, q \in EvaluatedPairs :
          /\ last.pre.derived[p] # "absent" /\ last.runs[p] = 0
          /\ last.pre.derived[q] = "absent" /\ last.runs[q] = 1

\* The labels of the non-pairing tasks: every task key but save_paired, and
\* the scorecard labels.
NonPairingLabel(label) == TaskKeyOf(label) \notin { "save_paired", "ValueError" }

InDocumentedTaskList(label) ==
    LET gone == cfg.tasks_to_exclude
                \cup (IF NModelsToEvaluate(cfg) < 2 THEN { "scorecard" } ELSE {})
    IN  TaskKeyOf(label) \in SeqToSet(TasksDefault(cfg.pkg)) \ gone

\* C5: running a task that is not in the effective task list is an error and
\* invokes none of the collaborator's pairing, plotting or statistics steps.
C5_RunOutsideTaskListIsError ==
    (RunReturned /\ ~InDocumentedTaskList(last.label)) =>
        /\ last.err # "none"
        /\ SeqToSet(last.calls) \cap
              { "pair_data", "save_analysis", "plotting", "stats" } = {}

\* C6: the package's task list is its default list, in order, without the
\* tasks of tasks_to_exclude and without scorecard when fewer than two
\* models are evaluated.
C6_TasksAreDefaultMinusExcluded ==
    Tasks(cfg) =
        FilterSeq(TasksDefault(cfg.pkg),
                  SeqToSet(TaskKey)
                    \ (cfg.tasks_to_exclude
                       \cup (IF NModelsToEvaluate(cfg) < 2 THEN { "scorecard" } ELSE {})))

\* C7: after initialize() the control files are one per non-scorecard task
\* of the effective task list and, when scorecard is in that list, one per
\* (scorecard, method), 4 x len(scorecards) files, else no scorecard file.
C7_ControlFilesMatchTaskList ==
    (InitReturned /\ last.err = "none") =>
        LET gone == cfg.tasks_to_exclude
                    \cup (IF NModelsToEvaluate(cfg) < 2 THEN { "scorecard" } ELSE {})
            effective == SeqToSet(TasksDefault(cfg.pkg)) \ gone
            scorecardFiles == { l \in fs.control : l[1] = "scorecard" }
        IN  /\ fs.control \ scorecardFiles = { << t >> : t \in effective \ { "scorecard" } }
            /\ Cardinality(scorecardFiles) =
                  IF "scorecard" \in effective
                  THEN Len(cfg.scorecards) * Len(ScorecardMethod) ELSE 0

\* C8 as stated: every run is followed by finalize(), and an exception of
\* the collaborator reaches the caller unchanged.
C8_FinalizeAlways ==
    RunReturned =>
        /\ last.finalized = 1
        /\ last.raised # "none" => last.err = last.raised

\* C8 amended: a run that passes its run-directory assertion calls
\* finalize() exactly once, after the task, when it was called with
\* finalize=True, whether the task succeeded or failed, and never otherwise;
\* an exception of the collaborator reaches the caller unchanged.
C8_FinalizeWhenAsked ==
    RunReturned =>
        /\ last.finalized = (IF last.finalizeArg /\ last.pre.runDir THEN 1 ELSE 0)
        /\ last.raised # "none" => last.err = last.raised

\* A run with finalize=True whose collaborator raised: finalize() was called
\* and the exception reached the caller.
C8_Witness ==
    /\ RunReturned
    /\ last.finalizeArg
    /\ last.raised = "CollabError"
    /\ last.err = "CollabError"
    /\ last.finalized = 1

\* The call order the task kinds are documented with.
DocumentedCalls(label) ==
    << "read_control" >> \o
    (IF label = << "save_paired" >>
     THEN << "open_models", "open_obs", "pair_data", "save_analysis" >>
     ELSE IF label \in { << "spatial_overlay" >>, << "spatial_bias" >> }
     THEN << "read_analysis", "open_models", "plotting" >>
     ELSE IF label = << "stats" >>
     THEN << "read_analysis", "stats" >>
     ELSE << "read_analysis", "plotting" >>)

\* C9: the calls a run makes are read_control followed by the calls of its
\* task kind, in order and each once: all of them when the run succeeds, an
\* initial part of them when it fails; and a run of another label than
\* save_paired makes no pair_data or save_analysis call.
C9_CallOrderByTaskKind ==
    (RunReturned /\ last.pre.runDir) =>
        /\ Len(last.calls) <= Len(DocumentedCalls(last.label))
        /\ last.calls = SubSeq(DocumentedCalls(last.label), 1, Len(last.calls))
        /\ Len(last.calls) >= 1
        /\ last.err = "none" => last.calls = DocumentedCalls(last.label)
        /\ last.label # << "save_paired" >> =>
              SeqToSet(last.calls) \cap { "pair_data", "save_analysis" } = {}

\* A spatial task that ran to its end.
C9_Witness ==
    /\ RunReturned
    /\ last.label = << "spatial_bias" >>
    /\ last.err = "none"
    /\ last.calls = << "read_control", "read_analysis", "open_models", "plotting" >>

\* The title a model ends up with, and the models whose colors are compared.
RawTitle(m) == IF m.title = NoTitle THEN m.key ELSE m.title
RawShareTitle ==
    \E i \in 1..Len(raw.models), j \in 1..Len(raw.models) :
        i # j /\ RawTitle(raw.models[i]) = RawTitle(raw.models[j])
RawShareColor ==
    \E i \in 1..Len(raw.models), j \in 1..Len(raw.models) :
        /\ i # j
        /\ raw.models[i].color = raw.models[j].color
        /\ raw.no_forecast => (~raw.models[i].is_host /\ ~raw.models[j].is_host)

\* The other invariants of a configuration hold: unique stems, exactly one
\* host, scorecards naming evaluated models.
RawOtherwiseValid ==
    LET ms == raw.models
        idx == 1..Len(ms)
        keys == { ms[i].key : i \in idx }
        hosts == { i \in idx : ms[i].is_host }
    IN  /\ \A i \in idx, j \in idx :
              i # j => ~KeyStartsWith(ms[j].key, ms[i].key)
        /\ Cardinality(hosts) = 1
        /\ \A k \in 1..Len(raw.scorecards) :
              /\ raw.scorecards[k].control \in keys
              /\ raw.scorecards[k].sensitivity \in keys
              /\ raw.no_forecast =>
                    \A h \in hosts : ms[h].key \notin { raw.scorecards[k].control,
                                                        raw.scorecards[k].sensitivity }

RawModelsValid ==
    LET ms == raw.models
        idx == 1..Len(ms)
    IN  /\ \A i \in idx, j \in idx : i # j => ~KeyStartsWith(ms[j].key, ms[i].key)
        /\ Cardinality({ i \in idx : ms[i].is_host }) = 1
        /\ ~RawShareTitle
        /\ ~RawShareColor

\* Scorecard entry k names a model that is not configured, or the host
\* while no_forecast is true.
RawBadScorecard(k) ==
    LET ms == raw.models
        keys == { ms[i].key : i \in 1..Len(ms) }
        hostKeys == { ms[i].key : i \in { j \in 1..Len(ms) : ms[j].is_host } }
        refs == { raw.scorecards[k].control, raw.scorecards[k].sensitivity }
    IN  \/ ~(refs \subseteq keys)
        \/ raw.no_forecast /\ refs \cap hostKeys # {}

\* C11: a configuration whose models meet the invariants on models is
\* rejected exactly when some scorecard entry has a control or sensitivity
\* that is no model key, or that is the host's key while no_forecast is
\* true; and such an entry is rejected whatever the models are.
C11_ScorecardReferences ==
    verdict # "none" =>
        /\ RawModelsValid =>
              /\ verdict # "ok" <=> \E k \in 1..Len(raw.scorecards) : RawBadScorecard(k)
              /\ verdict # "ok" => verdict = "scorecard"
        /\ (\E k \in 1..Len(raw.scorecards) : RawBadScorecard(k)) => verdict # "ok"

\* A scorecard naming configured models, one of them the host, rejected
\* under no_forecast.
C11_Witness ==
    /\ verdict = "scorecard"
    /\ raw.no_forecast
    /\ RawModelsValid
    /\ \E k \in 1..Len(raw.scorecards) :
          /\ { raw.scorecards[k].control, raw.scorecards[k].sensitivity }
                \subseteq { raw.models[i].key : i \in 1..Len(raw.models) }
          /\ RawBadScorecard(k)

\* The models flagged is_host in a models mapping.
HostsOf(models) == { i \in 1..Len(models) : models[i].is_host }

\* C12: every configuration validation accepts, handed over directly or
\* built by from_default_yaml, has exactly one model flagged is_host, and a
\* model set with no host or with several is rejected; from_default_yaml
\* keeps the template's default host exactly when the merged models hold
\* exactly one host.
C12_ExactlyOneHost ==
    verdict # "none" =>
        /\ verdict = "ok" => Cardinality(HostsOf(val.config.models)) = 1
        /\ Cardinality(HostsOf(raw.models)) # 1 => verdict # "ok"
        /\ val.op = "from_default_yaml" =>
              ((\E i \in 1..Len(raw.models) : raw.models[i].key = TemplateModels[1].key)
                 <=> Cardinality(HostsOf(val.merged)) = 1)

\* from_default_yaml removed the default host because the overrides brought
\* a host of their own, and the result was accepted.
C12_Witness ==
    /\ val.op = "from_default_yaml"
    /\ verdict = "ok"
    /\ Cardinality(HostsOf(val.merged)) = 2
    /\ Cardinality(HostsOf(val.config.models)) = 1
    /\ \A i \in 1..Len(raw.models) : raw.models[i].key # TemplateModels[1].key

\* Key a is an initial part of key b.
IsPrefix(a, b) == Len(a) <= Len(b) /\ \A i \in 1..Len(a) : a[i] = b[i]

RawSharedStem ==
    \E i \in 1..Len(raw.models), j \in 1..Len(raw.models) :
        /\ raw.models[i].key # raw.models[j].key
        /\ IsPrefix(raw.models[i].key, raw.models[j].key)

\* C13: a configuration in which some model key is a prefix of a different
\* model key is rejected, so no accepted configuration has such keys; and a
\* configuration that meets the other invariants is rejected exactly when
\* it has such keys.
C13_UniqueStems ==
    verdict # "none" =>
        /\ RawSharedStem => verdict # "ok"
        /\ verdict = "ok" =>
              \A i \in 1..Len(val.config.models), j \in 1..Len(val.config.models) :
                  i # j => ~IsPrefix(val.config.models[i].key, val.config.models[j].key)
        /\ (/\ Cardinality(HostsOf(raw.models)) = 1
            /\ ~RawShareTitle
            /\ ~RawShareColor
            /\ \A k \in 1..Len(raw.scorecards) : ~RawBadScorecard(k))
              => (verdict # "ok" <=> RawSharedStem)

\* Two models with keys of which one is a prefix of the other, rejected for
\* that alone.
C13_Witness ==
    /\ verdict = "stems"
    /\ RawSharedStem
    /\ Cardinality(HostsOf(raw.models)) = 1
    /\ ~RawShareTitle
    /\ ~RawShareColor
    /\ \A k \in 1..Len(raw.scorecards) : ~RawBadScorecard(k)

\* C14: validating a raw configuration leaves the mapping it was handed as
\* it was, whether validation succeeds or fails, and a failed validation
\* produces no configuration value.
C14_ValidationLeavesInputUnchanged ==
    val.op = "validate" =>
        /\ raw = val.input
        /\ verdict # "ok" => val.config = NoConfig

\* C15 as stated: for any two fragments the merge gives a mapping, merging
\* b once more gives the same mapping, and merging a fragment with itself
\* gives that fragment.
C15_MergeIdempotentForAll ==
    mrg.op = "merged" =>
        /\ mrg.ab.err = "none"
        /\ mrg.abb.err = "none" /\ mrg.abb.left = mrg.ab.left
        /\ mrg.aa.err = "none" /\ mrg.aa.left = mrg.a

\* Fragment a holds a mapping under a key under which b holds a leaf.
MergeConflict(a, b) ==
    \E k \in DOMAIN a \cap DOMAIN b :
        /\ a[k].t = "map"
        /\ b[k].t = "leaf"

\* The key-wise merge of two fragments without nested mappings.
FlatMerge(a, b) == [x \in DOMAIN a \cup DOMAIN b |-> IF x \in DOMAIN b THEN b[x] ELSE a[x]]

\* C15 amended: the merge completes exactly when a holds no mapping where b
\* holds a leaf (otherwise it raises AttributeError); when it completes,
\* merging b once more changes nothing, the result holds the keys of both,
\* nested mappings merged key-wise and every other value of b in place of
\* a's; and merging a fragment with itself gives that fragment.
C15_MergeIdempotentWhenDefined ==
    mrg.op = "merged" =>
        /\ mrg.ab.err # "none" <=> MergeConflict(mrg.a, mrg.b)
        /\ mrg.ab.err = "none" =>
              /\ mrg.abb.err = "none" /\ mrg.abb.left = mrg.ab.left
              /\ DOMAIN mrg.ab.left = DOMAIN mrg.a \cup DOMAIN mrg.b
              /\ \A k \in DOMAIN mrg.a \ DOMAIN mrg.b : mrg.ab.left[k] = mrg.a[k]
              /\ \A k \in DOMAIN mrg.b :
                    mrg.ab.left[k] =
                        IF k \in DOMAIN mrg.a /\ mrg.a[k].t = "map"
                        THEN [t |-> "map", v |-> FlatMerge(mrg.a[k].v, mrg.b[k].v)]
                        ELSE mrg.b[k]
        /\ mrg.aa.err = "none" /\ mrg.aa.left = mrg.a

\* Two fragments with a nested mapping under the same key, each with a key
\* the other lacks, merged.
C15_Witness ==
    /\ mrg.op = "merged"
    /\ mrg.ab.err = "none"
    /\ \E k \in DOMAIN mrg.a \cap DOMAIN mrg.b :
          /\ mrg.a[k].t = "map" /\ mrg.b[k].t = "map"
          /\ DOMAIN mrg.a[k].v \ DOMAIN mrg.b[k].v # {}
          /\ DOMAIN mrg.b[k].v \ DOMAIN mrg.a[k].v # {}
          /\ DOMAIN mrg.ab.left[k].v = DOMAIN mrg.a[k].v \cup DOMAIN mrg.b[k].v

\* A value that model_dump(mode="json") leaves as it is.
JsonNative(v) == DumpJson(v) = v

\* C16 as stated: for a valid configuration value, loading its serialized
\* form succeeds and gives an equal value; the serialized entries carry no
\* key item, and every loaded entry's key is its map key.
C16_RoundTripExact ==
    val.op = "round_trip" =>
        /\ ~val.doc.keyed
        /\ val.docVerdict = "ok"
        /\ val.reloaded = val.config
        /\ \A i \in 1..Len(val.doc.models) :
              val.reloaded.models[i].key = val.doc.models[i].key

\* C16 amended: loading the serialized form succeeds; the serialized
\* entries carry no key item and every loaded entry's key is its map key;
\* the loaded value equals the original in every item of a declared type,
\* and in an item declared Any it holds the JSON form of the original's
\* value, so the two are equal exactly when that value is JSON-native.
C16_RoundTripUpToJsonForm ==
    val.op = "round_trip" =>
        /\ ~val.doc.keyed
        /\ val.docVerdict = "ok"
        /\ \A i \in 1..Len(val.doc.models) :
              val.reloaded.models[i].key = val.doc.models[i].key
        /\ \A i \in 1..Len(val.doc.scorecards) :
              val.reloaded.scorecards[i].key = val.doc.scorecards[i].key
        /\ val.reloaded = [val.config EXCEPT !.free = DumpJson(val.config.free)]
        /\ val.reloaded = val.config <=> JsonNative(val.config.free)

\* A configuration of two models and a scorecard, one title defaulted from
\* the key, the tasks given as a list of names, serialized and loaded again
\* to an equal value.
C16_Witness ==
    /\ val.op = "round_trip"
    /\ Len(val.config.models) = 2
    /\ Len(val.config.scorecards) = 1
    /\ \E i \in 1..Len(val.input.models) : val.input.models[i].title = NoTitle
    /\ val.input.typed = [ty |-> "list", of |-> "str"]
    /\ val.config.typed = [ty |-> "tuple", of |-> "TaskKey"]
    /\ val.reloaded = val.config

\* The settings of the overrides' execution part that from_default_yaml has
\* to resolve: those left to the template's 'auto' or given as 'auto', and
\* the tasks_per_node of a task entry that gives none.
NeedsCores(e) ==
    \/ \E p \in PackageKey : e.pkgs[p].prep \in { Absent, Auto }
    \/ \E p \in PackageKey : e.pkgs[p].task.given /\ e.pkgs[p].task.tpn = Absent
    \/ e.defaults \in { Absent, Auto }

\* Every resolved setting of the configuration equals the platform's core
\* count and every setting the overrides give as an integer is kept.
ResolvedAndPreserved(in, out) ==
    /\ \A p \in PackageKey :
          /\ out.pkgs[p].prep.k = "int"
          /\ in.pkgs[p].prep \in { Absent, Auto } => out.pkgs[p].prep = NCores(in)
          /\ in.pkgs[p].prep.k = "int" => out.pkgs[p].prep = in.pkgs[p].prep
          /\ out.pkgs[p].task.given = in.pkgs[p].task.given
          /\ in.pkgs[p].task.given =>
                /\ out.pkgs[p].task.tpn.k = "int"
                /\ in.pkgs[p].task.tpn = Absent => out.pkgs[p].task.tpn = NCores(in)
                /\ in.pkgs[p].task.tpn.k = "int" =>
                      out.pkgs[p].task.tpn = in.pkgs[p].task.tpn
                /\ in.pkgs[p].task.nodes.k = "int" =>
                      out.pkgs[p].task.nodes = in.pkgs[p].task.nodes
    /\ out.defaults.k = "int"
    /\ in.defaults \in { Absent, Auto } => out.defaults = NCores(in)
    /\ in.defaults.k = "int" => out.defaults = in.defaults

C17_AutoResolvedAbsentPlatformIsErrorWhenNeeded ==
    val.op = "from_default_yaml" =>
        /\ verdict = "ok" => ResolvedAndPreserved(val.input.exec, val.config.exec)
        /\ (~HasPlatform(val.input.exec) /\ NeedsCores(val.input.exec))
              => verdict = "KeyError"

\* A call that resolves a prep setting, a task entry giving nodes only and
\* task_defaults, and keeps the nodes given.
C17_Witness ==
    /\ val.op = "from_default_yaml"
    /\ verdict = "ok"
    /\ val.input.exec.pkgs["chem"].prep = Absent
    /\ val.input.exec.pkgs["chem"].task.tpn = Absent
    /\ val.input.exec.pkgs["chem"].task.nodes = IntOf(2)
    /\ val.input.exec.defaults = Auto
    /\ val.config.exec.pkgs["chem"].task.nodes = IntOf(2)
    /\ val.config.exec.pkgs["chem"].task.tpn = NCores(val.input.exec)

\* A call with a platform key absent from the table that raises KeyError.
C17_WitnessAbsentPlatform ==
    /\ val.op = "from_default_yaml"
    /\ ~HasPlatform(val.input.exec)
    /\ verdict = "KeyError"

\* The links the data directory is to hold: one per evaluated model (every
\* configured model, the host left out under no_forecast), cycle date and
\* regular file matching the template.
ExpectedLinks ==
    LET evaluated == { cfg.models[i].key : i \in { j \in 1..Len(cfg.models) :
                          cfg.no_forecast => ~cfg.models[j].is_host } }
        files == { e.id : e \in { x \in CycleDirEntries : x.is_file /\ x.matches } }
    IN  evaluated \X (1..cfg.ndates) \X files

\* C18: after initialize() of a link-based package the data directory holds
\* exactly the expected links; the call creates only the links that were
\* missing, and a call repeated after a successful one creates none,
\* leaves the links as they were and raises no error.
C18_LinksExactAndStable ==
    (InitReturned /\ cfg.pkg \notin DaskPackages) =>
        /\ last.err = "none" =>
              /\ fs.links = ExpectedLinks
              /\ last.wrote.links = ExpectedLinks \ last.pre.links
        /\ last.histPre.initOk =>
              /\ last.pre.links = ExpectedLinks
              /\ last.wrote.links = {}
              /\ fs.links = last.pre.links
              /\ cfg.run_mode = "resume" => last.err = "none"

\* A repeated initialize() of a link-based package with two evaluated
\* models, all links in place before the call.
C18_Witness ==
    /\ InitReturned
    /\ cfg.pkg \notin DaskPackages
    /\ cfg.run_mode = "resume"
    /\ Len(MmModels(cfg)) = 2
    /\ last.histPre.initOk
    /\ last.pre.links = ExpectedLinks
    /\ ExpectedLinks # {}
    /\ last.err = "none"
    /\ fs.links = ExpectedLinks

\* A first initialize() under no_forecast: the host model gets no link.
C18_WitnessNoForecast ==
    /\ InitReturned
    /\ cfg.pkg \notin DaskPackages
    /\ cfg.no_forecast
    /\ Len(cfg.models) = 2
    /\ last.pre.links = {}
    /\ fs.links = ExpectedLinks
    /\ \E i \in 1..Len(cfg.models) :
          cfg.models[i].is_host /\ \A l \in fs.links : l[1] # cfg.models[i].key

\* run has returned or raised.
PipeExited == pipe.pc \in { "returned", "raised" }

\* C19 as stated: when run returns or raises, at whatever point, no input
\* dataset that was opened is left open.
C19_HandlesClosedOnExit ==
    PipeExited => (pipe.phy # "open" /\ pipe.dyn # "open")

\* The part of C19 that holds: when run returns, or raises in the try body
\* (selecting, deriving, materializing) or in the write, both datasets have
\* been opened and closed.
C19_HandlesClosedOnceBothOpened ==
    (PipeExited /\ pipe.at \notin { "open_phy", "open_dyn" }) =>
        (pipe.phy = "closed" /\ pipe.dyn = "closed")

\* run raises while materializing, both datasets closed.
C19_WitnessClosed ==
    /\ pipe.pc = "raised"
    /\ pipe.at = "compute"
    /\ pipe.phy = "closed"
    /\ pipe.dyn = "closed"

\* run raises because the second dataset cannot be opened.
C19_WitnessSecondOpenFails ==
    /\ pipe.pc = "raised"
    /\ pipe.at = "open_dyn"
    /\ pipe.why = "open"

\* The evaluated pairs whose derived file was partially written before the
\* call.
PartialBefore == { p \in EvaluatedPairs : last.pre.derived[p] = "partial" }

\* C20 as stated: under resume, initialize() of a package whose derived file
\* of some evaluated pair is present but partially written fails, and
\* neither runs the pipeline for that file nor changes it.
C20_ResumeFailsOnPartialFile ==
    (InitReturned /\ cfg.pkg \in DaskPackages /\ cfg.run_mode = "resume"
     /\ PartialBefore # {}) =>
        /\ last.err # "none"
        /\ \A p \in PartialBefore : last.runs[p] = 0 /\ fs.derived[p] = "partial"

\* The part of C20 that holds: the partially written file is not repaired;
\* it is skipped like a complete one and stays as it was.
C20_ResumeSkipsPartialFile ==
    (InitReturned /\ cfg.pkg \in DaskPackages /\ cfg.run_mode = "resume") =>
        \A p \in PartialBefore : last.runs[p] = 0 /\ fs.derived[p] = "partial"

\* initialize() under resume returns normally although a derived file is
\* partially written.
C20_WitnessPartialSkipped ==
    /\ InitReturned
    /\ cfg.pkg \in DaskPackages
    /\ cfg.run_mode = "resume"
    /\ PartialBefore # {}
    /\ last.err = "none"

IsPathPrefix(a, b) == Len(a) <= Len(b) /\ SubSeq(b, 1, Len(a)) = a

\* The path lies under run_dir/<k>/ or output_dir/<k>/, or is one of the
\* two roots.
UnderPackage(k, path) ==
    \/ path \in { << "run_dir" >>, << "output_dir" >> }
    \/ IsPathPrefix(<< "run_dir", k >>, path)
    \/ IsPathPrefix(<< "output_dir", k >>, path)

\* C21: every path a call of package P creates or writes lies under
\* run_dir/<P>/ or output_dir/<P>/ or is a root; each package finds on the
\* shared filesystem exactly the artifacts its own calls would have produced
\* on their own, whatever calls of the other package came in between, and
\* each call succeeds or fails as it would have on its own.
C21_PackagesIndependent ==
    (last.op \in { "init", "run" } /\ last.pkg \in PkgPair) =>
        /\ \A path \in last.changed : UnderPackage(last.pkg, path)
        /\ last.err = last.alone
        /\ \A k \in PkgPair :
              ViewOf(k, fs) = [hist[k] EXCEPT !.roots = ViewOf(k, fs).roots]
        /\ \A e \in fs : \E k \in PkgPair : UnderPackage(k, e.path)

\* Both packages have been initialized and have paired, the calls of the
\* two interleaved, and the last call wrote under its own directories.
C21_Witness ==
    /\ last.op = "run"
    /\ last.pkg \in PkgPair
    /\ last.err = "none"
    /\ last.changed # {}
    /\ \A k \in PkgPair : hist[k].paired /\ hist[k].parm
    /\ \E e \in fs : IsPathPrefix(<< "run_dir", "chem", "data", "link" >>, e.path)
    /\ \E e \in fs : IsPathPrefix(<< "run_dir", "ish", "data", "derived" >>, e.path)

Ascending(q) == \A i \in 1..(Len(q) - 1) : HourOf(q[i]) < HourOf(q[i + 1])

\* C22 as stated: the two sequences hold exactly the files of the directory
\* other than the zero-hour file, in ascending forecast-hour order, with the
\* same hours at the same positions.
C22_SequencesOrderedAndAligned ==
    val.op = "file_spec" =>
        /\ SeqToSet(val.dyn_path) = { n \in raw.dyn : HourOf(n) # 0 }
        /\ SeqToSet(val.phy_path) = { n \in raw.phy : HourOf(n) # 0 }
        /\ Ascending(val.dyn_path)
        /\ Ascending(val.phy_path)
        /\ val.dyn_path = val.phy_path

\* The part of C22 that holds: each sequence holds every file of its kind
\* other than the zero-hour file, once.
C22_ExactlyNonZeroHourFiles ==
    val.op = "file_spec" =>
        /\ SeqToSet(val.dyn_path) = { n \in raw.dyn : HourOf(n) # 0 }
        /\ SeqToSet(val.phy_path) = { n \in raw.phy : HourOf(n) # 0 }
        /\ Len(val.dyn_path) = Cardinality(SeqToSet(val.dyn_path))
        /\ Len(val.phy_path) = Cardinality(SeqToSet(val.phy_path))

\* A directory with the zero-hour file and two more of each kind, the
\* dynamics files yielded in descending order.
C22_WitnessDescending ==
    /\ val.op = "file_spec"
    /\ raw.dyn = HourNames
    /\ raw.phy = HourNames
    /\ val.dyn_path = << << 1, 0 >>, << 0, 1 >> >>
    /\ val.phy_path = << << 0, 1 >>, << 1, 0 >> >>

\* C23: in the automatic mode the chunk size of a horizontal dimension of
\* size d is ceil(d / s), s = ceil(sqrt(max(1, workers - time length))); it
\* lies between 1 and d and gives at most s chunks; an explicit chunk
\* specification is used unchanged.
C23_NearSquareChunks ==
    val.op = "chunks" =>
        LET n == IF raw.dask_num_workers - raw.sizes.time < 1 THEN 1
                 ELSE raw.dask_num_workers - raw.sizes.time
        IN  /\ raw.chunks.mode = "auto-aqm-eval" =>
                  \E s \in 1..n :
                      /\ s * s >= n /\ (s - 1) * (s - 1) < n
                      /\ \A k \in { "grid_xt", "grid_yt" } :
                            LET d == raw.sizes[k]
                                c == val.local_chunks.spec[k]
                            IN  /\ c * s >= d /\ (c - 1) * s < d
                                /\ 1 <= c /\ c <= d
                                /\ \E m \in 1..s : m * c >= d
            /\ raw.chunks.mode # "auto-aqm-eval" => val.local_chunks = raw.chunks

\* Three workers beyond the time length on a 5 by 6 grid: two chunks of 3
\* along each axis.
C23_Witness ==
    /\ val.op = "chunks"
    /\ raw.chunks.mode = "auto-aqm-eval"
    /\ raw.dask_num_workers - raw.sizes.time = 3
    /\ raw.sizes.grid_xt = 5
    /\ raw.sizes.grid_yt = 6
    /\ val.local_chunks.spec = [grid_xt |-> 3, grid_yt |-> 3]

\* The relative humidity of the pair is out of range: its minimum is 0 or
\* less, or its 90th percentile is 100 or more.
RhOutOfRange(p) == raw[p].min <= 0 \/ raw[p].q90 >= 100

\* C24: when the pipeline runs for a pair whose relative humidity is out of
\* range, initialize() ends with the error, and no output file is written
\* for the pair; a pair whose output file is written has its relative
\* humidity in range.
C24_RhOutOfRangeFails ==
    (InitReturned /\ cfg.pkg = "ish") =>
        \A p \in EvaluatedPairs :
            /\ (last.runs[p] = 1 /\ RhOutOfRange(p)) =>
                  /\ last.err = "PipelineError"
                  /\ fs.derived[p] = "absent"
            /\ p \in last.wrote.derived => ~RhOutOfRange(p)
            /\ (last.err = "none" /\ last.pre.derived[p] = "absent") => ~RhOutOfRange(p)

\* The first pair's file is written and the second pair's run raises on a
\* 90th percentile of 100.
C24_Witness ==
    /\ InitReturned
    /\ cfg.pkg = "ish"
    /\ last.err = "PipelineError"
    /\ last.wrote.derived # {}
    /\ \E p \in EvaluatedPairs :
          /\ last.runs[p] = 1
          /\ raw[p].min > 0 /\ raw[p].q90 = 100
          /\ fs.derived[p] = "absent"

\* The evaluation tasks of the emitted group and the names present in it.
GroupEmitted == val.op = "group"
GroupNames == { RocotoName(x.task_name) : x \in GroupToYaml(val.group) }

\* The dependencies of every evaluation task stay within its package: the
\* pairing task names the package's prep task only, every other task the
\* package's pairing task only.
C25_DependenciesWithinPackage ==
    GroupEmitted =>
        \A i \in 1..Len(val.group.tasks) :
            LET x == val.group.tasks[i]
            IN  x.deps = { IF x.task_key = "save_paired"
                           THEN RocotoName(AqmPrep(x.package_key).task_name)
                           ELSE RocotoName(AqmEvalTask(x.package_key,
                                                       "save_paired").task_name) }

\* C25: in the emitted group the pairing task of a package depends only on
\* the package's prep task, every other evaluation task only on the
\* package's pairing task, and every task an evaluation task or the
\* concatenation task depends on is present in the group.
C25_DependenciesPresent ==
    /\ C25_DependenciesWithinPackage
    /\ GroupEmitted =>
          /\ \A i \in 1..Len(val.group.tasks) :
                val.group.tasks[i].deps \subseteq GroupNames
          /\ Len(val.group.concat_task.active_package_keys) >= 1 =>
                val.group.concat_task.deps \subseteq GroupNames

\* An active package without its pairing task, with another task scheduled.
C25_WitnessPairingExcluded ==
    /\ GroupEmitted
    /\ \E i \in 1..Len(val.group.tasks) :
          LET x == val.group.tasks[i]
          IN  /\ "save_paired" \in cfg.packages[x.package_key].tasks_to_exclude
              /\ x.task_key = "stats"

\* The right operands have the values they had before the first merge.
RightsUnchanged ==
    /\ Deref(mrg.heap, << "R" >>) = mrg.r0
    /\ Deref(mrg.heap, << "S" >>) = mrg.s0

\* One merge alone leaves both right operands as they were.
C26_FirstMergeKeepsRight ==
    (Len(mrg.steps) = 1) => RightsUnchanged

\* C26: after a merge and after every later write to the left mapping, a
\* further merge or the resolution of from_default_yaml, the right operands
\* are equal to their values before the merge.
C26_OverridesNeverModified ==
    (Len(mrg.steps) >= 1 /\ mrg.steps[1] # "resolve") => RightsUnchanged

\* R was merged, then S, and R's nested mapping has S's item.
C26_WitnessAliased ==
    /\ mrg.steps = << "R", "S" >>
    /\ mrg.err = "none"
    /\ ~RightsUnchanged

\* The labels the scheduled tasks of package k pass to run, and the labels
\* of the control files in the package's run directory.
ScheduledLabels(k) ==
    { val.group.tasks[i].mm_eval_task :
        i \in { j \in 1..Len(val.group.tasks) : val.group.tasks[j].package_key = k } }
PersistedLabels(k) == hist[k].control

\* The workflow is generated and initialize() of package k has succeeded.
GroupInitialized(k) ==
    /\ GroupEmitted
    /\ cfg.packages[k].active
    /\ last[k] = "none"

\* C27: for every active package the labels of the scheduled tasks are
\* exactly the labels of the control files initialize() has persisted.
C27_ScheduledMatchPersisted ==
    \A k \in SeqToSet(GroupPkgSeq) :
        GroupInitialized(k) => ScheduledLabels(k) = PersistedLabels(k)

\* With nothing excluded, and no scorecard task in play, the two agree.
C27_MatchWithoutExclusionsAndScorecards ==
    \A k \in SeqToSet(GroupPkgSeq) :
        (/\ GroupInitialized(k)
         /\ cfg.packages[k].tasks_to_exclude = {}
         /\ << "scorecard" >> \notin ScheduledLabels(k)
         /\ \A l \in PersistedLabels(k) : l[1] # "scorecard")
        => ScheduledLabels(k) = PersistedLabels(k)

\* chem with timeseries excluded: its control file is persisted and no
\* scheduled task runs it.
C27_WitnessExcludedPersisted ==
    /\ GroupInitialized("chem")
    /\ cfg.packages["chem"].tasks_to_exclude = { "timeseries" }
    /\ << "timeseries" >> \in PersistedLabels("chem") \ ScheduledLabels("chem")

\* chem with scorecards configured: the scheduled label scorecard has no
\* control file, the persisted scorecard files have labels of their own.
C27_WitnessScorecardLabel ==
    /\ GroupInitialized("chem")
    /\ << "scorecard" >> \in ScheduledLabels("chem") \ PersistedLabels("chem")
    /\ \E l \in PersistedLabels("chem") : l[1] = "scorecard"

\* C28: for a validated configuration with scorecards, initialize() does
\* not fail with the ValueError of the scorecard lookup: wherever it gets
\* as far as the control files, each scorecard's models are among the
\* evaluated models and, for a package with the scorecard task, every
\* scorecard control file is written.
C28_ScorecardModelsFound ==
    (InitReturned /\ EnableScorecards(cfg)) =>
        /\ last.err # "ValueError"
        /\ \A i \in 1..Len(cfg.scorecards) :
              { cfg.scorecards[i].control, cfg.scorecards[i].sensitivity }
                 \subseteq SeqToSet(MmModels(cfg))
        /\ (last.err = "none" /\ "scorecard" \in SeqToSet(Tasks(cfg))) =>
              ScorecardLabels(cfg) \subseteq fs.control

\* A scorecard of the host against the other model, with a forecast, has
\* its control files written.
C28_Witness ==
    /\ InitReturned
    /\ ~cfg.no_forecast
    /\ \E i \in 1..Len(cfg.scorecards) :
          HostModel(cfg.models) \in { cfg.scorecards[i].control,
                                      cfg.scorecards[i].sensitivity }
    /\ last.err = "none"
    /\ ScorecardLabels(cfg) # {}
    /\ ScorecardLabels(cfg) \subseteq last.wrote.control

\* Under no_forecast the host is not evaluated and a scorecard among the
\* remaining models has its control files written.
C28_WitnessNoForecast ==
    /\ InitReturned
    /\ cfg.no_forecast
    /\ EnableScorecards(cfg)
    /\ HostModel(cfg.models) \notin SeqToSet(MmModels(cfg))
    /\ last.err = "none"
    /\ ScorecardLabels(cfg) \subseteq last.wrote.control

\* C29: the wildcard of a model matches a file of the data directory
\* exactly when the file was created for that model.
C29_WildcardSelectsOwnFiles ==
    \A f \in fs : \A i \in 1..Len(MmModels(cfg)) :
        LET key == MmModels(cfg)[i]
        IN  GlobMatch(LinkAlldaysPathTemplate(key), f.name) <=> (f.model = key)

\* Two evaluated models whose keys begin alike, one key ending in the
\* separator character, each with a file in the data directory.
C29_Witness ==
    /\ Len(MmModels(cfg)) = 2
    /\ MmModels(cfg)[1] = << "a", "_" >>
    /\ MmModels(cfg)[2] = << "a", "a" >>
    /\ \E f \in fs, g \in fs :
          /\ f.model = MmModels(cfg)[1] /\ g.model = MmModels(cfg)[2]
          /\ f.name = LinkName(f.model, << "_", "a" >>, DynfStem \o << "_" >> \o NcSuffix)
          /\ g.name = OutName(g.model, << "a" >>)

\* run() has returned or raised.
SyncDone == pipe.pc = "done"

\* finalize() has run once when run() ends, whatever the outcome.
C30_FinalizeOnce == SyncDone => pipe.finalized = 1

\* C30: when run() has returned or raised, the system's
\* max_concurrent_requests setting is the one it was before the call and
\* finalize() has run exactly once.
C30_SettingRestored ==
    SyncDone => (pipe.sys = pipe.sys0 /\ pipe.finalized = 1)

\* The sync succeeded with a context value that differs from the system's
\* setting, and the system is left with the context's value.
C30_WitnessNotRestored ==
    /\ SyncDone
    /\ pipe.err = "none"
    /\ pipe.synced
    /\ pipe.sys0 # Absent
    /\ pipe.ctx.max_concurrent_requests # Absent
    /\ pipe.sys = pipe.ctx.max_concurrent_requests
    /\ pipe.sys # pipe.sys0

====
